---- MODULE Spec2Model ----
(***************************************************************************)
(* EveryBot: the workspace gateway (WorkspaceFS), the file tool gateway    *)
(* (createFileTools), the approval ledger (ApprovalManager), the audit log *)
(* (AuditLogger), the HTTP routes that compose them and the scheduler's    *)
(* runTool executor.                                                       *)
(*                                                                         *)
(* A string is a sequence of one-character strings, so that the prefix,    *)
(* trim and split tests of the code are computed character by character.   *)
(* The path functions are those of node:path on a POSIX host.              *)
(***************************************************************************)
EXTENDS Integers, Sequences, FiniteSets, TLC

VARIABLES
    fs,        \* the host filesystem: absolute path -> node, for every existing object
    last,      \* the latest WorkspaceFS call: its arguments, result and footprint
    ncalls,    \* how many WorkspaceFS calls were made directly (bounded by MaxCalls)
    pending,   \* ApprovalManager.pending: the PendingTool records, in insertion order
    nextUuid,  \* how many ids randomUUID has issued (ids are 1, 2, ...: never repeated)
    listeners, \* ApprovalManager.listeners: the registered observers, in order
    notified,  \* history: every observer invocation, [listener, id, approved], in order
    audit,     \* audit.jsonl: the entries appended, in order
    reqs,      \* every HTTP request received so far: its inputs, position and response
    tasks,     \* SchedulerEngine.tasks
    jobs,      \* SchedulerRunner.jobs: the task each active cron job was scheduled with
    runs,      \* runs.jsonl
    executions, \* history: every fileTools.write / fileTools.delete call, in order
    ledgerCalls, \* history: every call made on the ApprovalManager alone, in order
    tasksJson, \* tasks.json: the task list SchedulerEngine.save wrote last
    crons,     \* how many Cron objects that were not stopped exist for each task id
    mail,      \* the mail channel: INBOX, ProcessedStore.seen, the polls and their history
    conv       \* one conversation: meta.json's nextMsgNo and the nextBotMsgNo calls

callVars == <<last, ncalls>>
\* what the file tool and approval routes and the ledger leave alone
restVars == <<tasksJson, crons, mail, conv>>
appVars == <<pending, nextUuid, listeners, notified, audit, reqs, tasks, jobs, runs, executions,
            ledgerCalls, restVars>>

vars == <<fs, last, ncalls, pending, nextUuid, listeners, notified, audit, reqs, tasks, jobs,
          runs, executions, ledgerCalls, tasksJson, crons, mail, conv>>

Null == [null |-> TRUE]

(***************************************************************************)
(* Generic sequence helpers                                                *)
(***************************************************************************)
\* The({ e(x) : x \in {v} }) is e(v), with v evaluated once
The(S) == CHOOSE x \in S : TRUE

IsPrefix(s, t) == Len(s) <= Len(t) /\ SubSeq(t, 1, Len(s)) = s

RECURSIVE Flatten(_)
Flatten(ss) == IF ss = <<>> THEN <<>> ELSE Head(ss) \o Flatten(Tail(ss))

RECURSIVE JoinWith(_, _)
JoinWith(segs, d) ==
    IF segs = <<>> THEN <<>>
    ELSE IF Len(segs) = 1 THEN Head(segs)
    ELSE Head(segs) \o <<d>> \o JoinWith(Tail(segs), d)

\* String.prototype.split(sep): the pieces between separators, empty pieces kept
RECURSIVE SplitAcc(_, _, _)
SplitAcc(s, d, cur) ==
    IF s = <<>> THEN <<cur>>
    ELSE IF Head(s) = d THEN <<cur>> \o SplitAcc(Tail(s), d, <<>>)
    ELSE SplitAcc(Tail(s), d, Append(cur, Head(s)))

Split(s, d) == SplitAcc(s, d, <<>>)

SeqsUpTo(S, n) == UNION { [1..k -> S] : k \in 0..n }

(***************************************************************************)
(* node:path (POSIX) and node:path.win32.isAbsolute                        *)
(***************************************************************************)
Letters == {"a", "l", "o", "s", "w"}
WhiteSpace == {" "}

\* path.sep
sep == "/"

\* normalizeString(path, allowAboveRoot = false): drop "" and ".", ".." pops
RECURSIVE NormalizeSegs(_, _)
NormalizeSegs(segs, acc) ==
    IF segs = <<>> THEN acc
    ELSE The({ IF h = <<>> \/ h = <<".">> THEN NormalizeSegs(t, acc)
               ELSE IF h = <<".", ".">>
               THEN The({ NormalizeSegs(t, a) :
                          a \in {IF acc = <<>> THEN acc ELSE SubSeq(acc, 1, Len(acc) - 1)} })
               ELSE The({ NormalizeSegs(t, a) : a \in {Append(acc, h)} }) :
               h \in {Head(segs)}, t \in {Tail(segs)} })

\* path.isAbsolute (posix) of a string
posixIsAbsolute(s) == s # <<>> /\ s[1] = "/"

\* path.resolve(root, userPath), root already absolute and normalized (a sequence
\* of segments); the result is the sequence of segments of the absolute path
pathResolve(rootSegs, userPath) ==
    IF posixIsAbsolute(userPath)
    THEN NormalizeSegs(Split(userPath, sep), <<>>)
    ELSE NormalizeSegs(rootSegs \o Split(userPath, sep), <<>>)

\* length of the longest common prefix of two segment sequences
RECURSIVE CommonLen(_, _)
CommonLen(a, b) ==
    IF a = <<>> \/ b = <<>> \/ Head(a) # Head(b) THEN 0
    ELSE 1 + CommonLen(Tail(a), Tail(b))

\* path.relative(from, to) of two absolute normalized paths, as a string
pathRelative(from, to) ==
    The({ JoinWith([i \in 1..(Len(from) - n) |-> <<".", ".">>]
                   \o SubSeq(to, n + 1, Len(to)), sep) :
          n \in {CommonLen(from, to)} })

\* path.dirname of an absolute normalized path (dirname("/") = "/")
pathDirname(p) == IF p = <<>> THEN <<>> ELSE SubSeq(p, 1, Len(p) - 1)

\* path.join(cur, part) of an absolute path and one segment
pathJoin(cur, part) == NormalizeSegs(Append(cur, part), <<>>)

\* path.win32.isAbsolute
win32IsAbsolute(s) ==
    /\ Len(s) > 0
    /\ \/ s[1] \in {"/", "\\"}
       \/ Len(s) > 2 /\ s[1] \in Letters /\ s[2] = ":" /\ s[3] \in {"/", "\\"}

\* String.prototype.startsWith
startsWith(s, pre) == IsPrefix(pre, s)

\* userPath.trim() === ""
trimIsEmpty(s) == \A i \in 1..Len(s) : s[i] \in WhiteSpace

\* /^[a-zA-Z]:/.test(userPath)
drivePrefix(s) == Len(s) >= 2 /\ s[1] \in Letters /\ s[2] = ":"

(***************************************************************************)
(* Strings and buffers.  A string is a sequence of characters, a buffer a  *)
(* sequence of bytes.  The letters are one byte each in UTF-8; beside them *)
(* there are a two-byte character, an unpaired surrogate (which no UTF-8   *)
(* byte sequence encodes), U+FFFD, and LongRun, which stands for a run of  *)
(* MAX_WRITE_BYTES - 1 one-byte characters and for the bytes of that run.  *)
(***************************************************************************)
\* MAX_WRITE_BYTES
MaxWriteBytes == 10485760

TwoByteChar == "U+00E9"
LoneSurrogate == "U+D800"
ReplacementChar == "U+FFFD"
LongRun == "x..x"

ReplacementBytes == <<"0xEF", "0xBF", "0xBD">>

\* one byte for every character, as if the length were counted in characters
utf8BytesOneEach(ch) == <<ch>>

\* the UTF-8 bytes of one character, as Buffer.from(s, "utf-8") produces them
utf8Bytes(ch) ==
    IF ch = TwoByteChar THEN <<"0xC3", "0xA9">>
    ELSE IF ch \in {LoneSurrogate, ReplacementChar} THEN ReplacementBytes
    ELSE <<ch>>

\* Buffer.from(s, "utf-8")
utf8Encode(str) == Flatten([i \in 1..Len(str) |-> utf8Bytes(str[i])])

\* buf.toString("utf-8"): bytes that are not a character become U+FFFD
RECURSIVE utf8Decode(_)
utf8Decode(buf) ==
    IF buf = <<>> THEN <<>>
    ELSE IF IsPrefix(<<"0xC3", "0xA9">>, buf)
    THEN <<TwoByteChar>> \o utf8Decode(SubSeq(buf, 3, Len(buf)))
    ELSE IF IsPrefix(ReplacementBytes, buf)
    THEN <<ReplacementChar>> \o utf8Decode(SubSeq(buf, 4, Len(buf)))
    ELSE IF Head(buf) \in {"0xC3", "0xA9", "0xEF", "0xBF", "0xBD"}
    THEN <<ReplacementChar>> \o utf8Decode(Tail(buf))
    ELSE <<Head(buf)>> \o utf8Decode(Tail(buf))

\* buf.byteLength
RECURSIVE byteLength(_)
byteLength(buf) ==
    IF buf = <<>> THEN 0
    ELSE (IF Head(buf) = LongRun THEN MaxWriteBytes - 1 ELSE 1) + byteLength(Tail(buf))

(***************************************************************************)
(* The host filesystem (node:fs/promises on POSIX).  fs maps the absolute  *)
(* path of every existing object to its node; <<>> is "/".  Intermediate   *)
(* symbolic links are followed by every call; the last component is        *)
(* followed by readFile, writeFile, readdir and mkdir, not by lstat and rm.*)
(***************************************************************************)
Dir == [kind |-> "dir", content |-> <<>>, target |-> <<>>]
File(c) == [kind |-> "file", content |-> c, target |-> <<>>]
Link(t) == [kind |-> "link", content |-> <<>>, target |-> t]

\* the kernel's bound on the symbolic links followed in one resolution
SymloopMax == 2

Put(f, p, node) == [x \in DOMAIN f \cup {p} |-> IF x = p THEN node ELSE f[x]]

RemoveTree(f, p) == [x \in {q \in DOMAIN f : ~IsPrefix(p, q)} |-> f[x]]

FsErr(e) == [ok |-> FALSE, path |-> <<>>, err |-> e]
FsAt(p) == [ok |-> TRUE, path |-> p, err |-> ""]

\* kernel path resolution: the real location a path names (which may not exist yet
\* when only its last component is missing)
RECURSIVE Walk(_, _, _, _, _)
Walk(f, cur, rest, follow, fuel) ==
    IF rest = <<>> THEN FsAt(cur)
    ELSE The({ IF nxt \notin DOMAIN f
               THEN IF more = <<>> THEN FsAt(nxt) ELSE FsErr("ENOENT")
               ELSE IF f[nxt].kind = "link" /\ (more # <<>> \/ follow)
               THEN IF fuel = 0 THEN FsErr("ELOOP")
                    ELSE The({ Walk(f, <<>>, t, follow, fuel - 1) :
                               t \in {f[nxt].target \o more} })
               ELSE IF f[nxt].kind = "file" /\ more # <<>> THEN FsErr("ENOTDIR")
               ELSE Walk(f, nxt, more, follow, fuel) :
               nxt \in {Append(cur, Head(rest))}, more \in {Tail(rest)} })

RealPath(f, p, follow) == Walk(f, <<>>, p, follow, SymloopMax)

\* the result of one filesystem or WorkspaceFS call: the filesystem after it, the
\* value or the error, the real locations whose content it read or changed, and
\* (WorkspaceFS calls) the paths ensureInsideWorkspace handed to fs.lstat or fs.mkdir
Res(f, ok, val, err, touched) ==
    [fs |-> f, ok |-> ok, val |-> val, err |-> err, touched |-> touched, probed |-> {}]

\* fs.lstat(p): the node, last component not followed
lstat(f, p) ==
    The({ IF ~r.ok THEN Res(f, FALSE, Null, r.err, {})
          ELSE IF r.path \notin DOMAIN f THEN Res(f, FALSE, Null, "ENOENT", {})
          ELSE Res(f, TRUE, f[r.path], "", {}) :
          r \in {RealPath(f, p, FALSE)} })

\* fs.mkdir(p, {recursive: true})
RECURSIVE MkdirWalk(_, _, _, _, _)
MkdirWalk(f, cur, rest, fuel, made) ==
    IF rest = <<>> THEN Res(f, TRUE, Null, "", made)
    ELSE The({ IF nxt \notin DOMAIN f
               THEN The({ MkdirWalk(g, nxt, Tail(rest), fuel, made \cup {nxt}) :
                          g \in {Put(f, nxt, Dir)} })
               ELSE IF f[nxt].kind = "link"
               THEN IF fuel = 0 THEN Res(f, FALSE, Null, "ELOOP", made)
                    ELSE MkdirWalk(f, <<>>, f[nxt].target \o Tail(rest), fuel - 1, made)
               ELSE IF f[nxt].kind = "file" THEN Res(f, FALSE, Null, "ENOTDIR", made)
               ELSE MkdirWalk(f, nxt, Tail(rest), fuel, made) :
               nxt \in {Append(cur, Head(rest))} })

mkdirRecursive(f, p) == MkdirWalk(f, <<>>, p, SymloopMax, {})

\* fs.readFile(p): the file's bytes
readFile(f, p) ==
    The({ IF ~r.ok THEN Res(f, FALSE, Null, r.err, {})
          ELSE IF r.path \notin DOMAIN f THEN Res(f, FALSE, Null, "ENOENT", {})
          ELSE IF f[r.path].kind = "dir" THEN Res(f, FALSE, Null, "EISDIR", {})
          ELSE Res(f, TRUE, f[r.path].content, "", {r.path}) :
          r \in {RealPath(f, p, TRUE)} })

\* fs.writeFile(p, content, "utf-8")
writeFile(f, p, content) ==
    The({ IF ~r.ok THEN Res(f, FALSE, Null, r.err, {})
          ELSE IF r.path \in DOMAIN f /\ f[r.path].kind = "dir"
          THEN Res(f, FALSE, Null, "EISDIR", {})
          ELSE Res(Put(f, r.path, File(utf8Encode(content))), TRUE, Null, "", {r.path}) :
          r \in {RealPath(f, p, TRUE)} })

\* fs.readdir(p, {withFileTypes: true}) mapped by listDir: name, "/" after a directory
readdir(f, p) ==
    The({ IF ~r.ok THEN Res(f, FALSE, Null, r.err, {})
          ELSE IF r.path \notin DOMAIN f THEN Res(f, FALSE, Null, "ENOENT", {})
          ELSE IF f[r.path].kind # "dir" THEN Res(f, FALSE, Null, "ENOTDIR", {})
          ELSE Res(f, TRUE,
                   { IF f[q].kind = "dir" THEN Append(q[Len(q)], "/") ELSE q[Len(q)] :
                       q \in {x \in DOMAIN f : Len(x) = Len(r.path) + 1 /\ IsPrefix(r.path, x)} },
                   "", {r.path}) :
          r \in {RealPath(f, p, TRUE)} })

\* fs.rm(p, {recursive: true, force: true})
rm(f, p) ==
    The({ IF ~r.ok
          THEN IF r.err = "ENOENT" THEN Res(f, TRUE, Null, "", {})
               ELSE Res(f, FALSE, Null, r.err, {})
          ELSE IF r.path \notin DOMAIN f THEN Res(f, TRUE, Null, "", {})
          ELSE Res(RemoveTree(f, r.path), TRUE, Null, "",
                   {q \in DOMAIN f : IsPrefix(r.path, q)}) :
          r \in {RealPath(f, p, FALSE)} })

(***************************************************************************)
(* WorkspaceFS                                                             *)
(***************************************************************************)
\* this.workspaceRoot after path.resolve: /w
WorkspaceRoot == << <<"w">> >>

\* readText's default maxBytes
DefaultMaxBytes == 1000000

SymlinkNotAllowed == "Symlink/junction is not allowed"

\* exists(p): lstat succeeds
exists(f, p) == lstat(f, p).ok

\* assertNotLinkOrReparse without the isSymbolicLink test
assertNotLinkOrReparseNoTest(f, p) ==
    The({ IF ~st.ok THEN st.err ELSE "" : st \in {lstat(f, p)} })

\* assertNotLinkOrReparse(p): "" when it returns, the error it throws otherwise
assertNotLinkOrReparse(f, p) ==
    The({ IF ~st.ok THEN st.err
          ELSE IF st.val.kind = "link" THEN SymlinkNotAllowed
          ELSE "" :
          st \in {lstat(f, p)} })

\* lexicalCheck with the escape test written as rel === ".."
lexicalCheckExactParent(userPath) ==
    IF userPath = <<>> \/ trimIsEmpty(userPath) THEN "Empty path"
    ELSE IF win32IsAbsolute(userPath) THEN "Absolute path not allowed"
    ELSE IF drivePrefix(userPath) THEN "Drive path not allowed"
    ELSE IF startsWith(userPath, <<"\\", "\\">>) \/ startsWith(userPath, <<"/", "/">>)
    THEN "UNC path not allowed"
    ELSE The({ IF rel = <<".", ".">> \/ posixIsAbsolute(rel)
               THEN "Path escapes workspace"
               ELSE "" :
               rel \in {pathRelative(WorkspaceRoot, pathResolve(WorkspaceRoot, userPath))} })

\* lexicalCheck with the root itself (rel === "") counted as escaping
lexicalCheckRejectsRoot(userPath) ==
    IF userPath = <<>> \/ trimIsEmpty(userPath) THEN "Empty path"
    ELSE IF win32IsAbsolute(userPath) THEN "Absolute path not allowed"
    ELSE IF drivePrefix(userPath) THEN "Drive path not allowed"
    ELSE IF startsWith(userPath, <<"\\", "\\">>) \/ startsWith(userPath, <<"/", "/">>)
    THEN "UNC path not allowed"
    ELSE The({ IF rel = <<>> \/ startsWith(rel, <<".", ".">>) \/ posixIsAbsolute(rel)
               THEN "Path escapes workspace"
               ELSE "" :
               rel \in {pathRelative(WorkspaceRoot, pathResolve(WorkspaceRoot, userPath))} })

\* lexicalCheck with the drive-letter test moved in front of the absolute test
lexicalCheckDriveFirst(userPath) ==
    IF userPath = <<>> \/ trimIsEmpty(userPath) THEN "Empty path"
    ELSE IF drivePrefix(userPath) THEN "Drive path not allowed"
    ELSE IF win32IsAbsolute(userPath) THEN "Absolute path not allowed"
    ELSE IF startsWith(userPath, <<"\\", "\\">>) \/ startsWith(userPath, <<"/", "/">>)
    THEN "UNC path not allowed"
    ELSE The({ IF startsWith(rel, <<".", ".">>) \/ posixIsAbsolute(rel)
               THEN "Path escapes workspace"
               ELSE "" :
               rel \in {pathRelative(WorkspaceRoot, pathResolve(WorkspaceRoot, userPath))} })

\* the lexical checks of ensureInsideWorkspace, in the code's order: "" when all
\* pass, the message of the first that throws otherwise
lexicalCheck(userPath) ==
    IF userPath = <<>> \/ trimIsEmpty(userPath) THEN "Empty path"
    ELSE IF win32IsAbsolute(userPath) THEN "Absolute path not allowed"
    ELSE IF drivePrefix(userPath) THEN "Drive path not allowed"
    ELSE IF startsWith(userPath, <<"\\", "\\">>) \/ startsWith(userPath, <<"/", "/">>)
    THEN "UNC path not allowed"
    ELSE The({ IF startsWith(rel, <<".", ".">>) \/ posixIsAbsolute(rel)
               THEN "Path escapes workspace"
               ELSE "" :
               rel \in {pathRelative(WorkspaceRoot, pathResolve(WorkspaceRoot, userPath))} })

\* targetToCheck without the case for write mode
targetToCheckAlwaysTarget(resolved, mode) == resolved

\* which path the symbolic link walk ends at
targetToCheck(resolved, mode) == IF mode = "write" THEN pathDirname(resolved) ELSE resolved

\* the loop over partsToCheck: err is "" when it ends and the error it throws
\* otherwise, probed the paths it handed to fs.lstat
RECURSIVE walkParts(_, _, _, _)
walkParts(f, cur, parts, probed) ==
    IF parts = <<>> THEN [err |-> "", probed |-> probed]
    ELSE The({ IF ~exists(f, c) THEN [err |-> "", probed |-> probed \cup {c}]
               ELSE The({ IF e # "" THEN [err |-> e, probed |-> probed \cup {c}]
                          ELSE walkParts(f, c, Tail(parts), probed \cup {c}) :
                          e \in {assertNotLinkOrReparse(f, c)} }) :
               c \in {pathJoin(cur, Head(parts))} })

\* ensureInsideWorkspace once the lexical checks have passed and the root exists
\* (g: the filesystem then, made: what creating the root created)
checkLinks(g, made, resolved, mode) ==
    The({ IF a # ""
          THEN [Res(g, FALSE, Null, a, made) EXCEPT !.probed = {WorkspaceRoot}]
          ELSE The({ [Res(g, w.err = "", IF w.err = "" THEN resolved ELSE Null, w.err, made)
                        EXCEPT !.probed = w.probed] :
                     w \in {walkParts(g, WorkspaceRoot,
                                      SelectSeq(Split(pathRelative(WorkspaceRoot,
                                                                   targetToCheck(resolved, mode)),
                                                      sep),
                                                LAMBDA x : x # <<>>),
                                      {WorkspaceRoot})} }) :
          a \in {assertNotLinkOrReparse(g, WorkspaceRoot)} })

\* ensureInsideWorkspace with the root created and checked before the lexical checks
ensureInsideWorkspaceRootFirst(f, userPath, mode) ==
    The({ IF ~mk.ok
          THEN [Res(mk.fs, FALSE, Null, mk.err, mk.touched) EXCEPT !.probed = {WorkspaceRoot}]
          ELSE The({ IF lex # ""
                     THEN [Res(mk.fs, FALSE, Null, lex, mk.touched)
                             EXCEPT !.probed = {WorkspaceRoot}]
                     ELSE checkLinks(mk.fs, mk.touched,
                                     pathResolve(WorkspaceRoot, userPath), mode) :
                     lex \in {lexicalCheck(userPath)} }) :
          mk \in {IF exists(f, WorkspaceRoot) THEN Res(f, TRUE, Null, "", {})
                  ELSE mkdirRecursive(f, WorkspaceRoot)} })

ensureInsideWorkspace(f, userPath, mode) ==
    The({ IF lex # "" THEN Res(f, FALSE, Null, lex, {})
          ELSE The({ IF ~mk.ok
                     THEN [Res(mk.fs, FALSE, Null, mk.err, mk.touched)
                             EXCEPT !.probed = {WorkspaceRoot}]
                     ELSE checkLinks(mk.fs, mk.touched,
                                     pathResolve(WorkspaceRoot, userPath), mode) :
                     mk \in {IF exists(f, WorkspaceRoot) THEN Res(f, TRUE, Null, "", {})
                             ELSE mkdirRecursive(f, WorkspaceRoot)} }) :
          lex \in {lexicalCheck(userPath)} })

\* readText with the size test written as >=
readTextAtLeast(f, userPath, maxBytes) ==
    The({ IF ~e.ok THEN e
          ELSE The({ [(IF ~r.ok THEN Res(e.fs, FALSE, Null, r.err, e.touched)
                       ELSE IF byteLength(r.val) >= maxBytes
                       THEN Res(e.fs, FALSE, Null, "File too large", e.touched \cup r.touched)
                       ELSE Res(e.fs, TRUE, utf8Decode(r.val), "", e.touched \cup r.touched))
                        EXCEPT !.probed = e.probed] :
                     r \in {readFile(e.fs, e.val)} }) :
          e \in {ensureInsideWorkspace(f, userPath, "read")} })

readText(f, userPath, maxBytes) ==
    The({ IF ~e.ok THEN e
          ELSE The({ [(IF ~r.ok THEN Res(e.fs, FALSE, Null, r.err, e.touched)
                       ELSE IF byteLength(r.val) > maxBytes
                       THEN Res(e.fs, FALSE, Null, "File too large", e.touched \cup r.touched)
                       ELSE Res(e.fs, TRUE, utf8Decode(r.val), "", e.touched \cup r.touched))
                        EXCEPT !.probed = e.probed] :
                     r \in {readFile(e.fs, e.val)} }) :
          e \in {ensureInsideWorkspace(f, userPath, "read")} })

writeText(f, userPath, content) ==
    The({ IF ~e.ok THEN e
          ELSE The({ IF ~m.ok
                     THEN [Res(m.fs, FALSE, Null, m.err, e.touched \cup m.touched)
                             EXCEPT !.probed = e.probed]
                     ELSE The({ [Res(w.fs, w.ok, Null, w.err,
                                     e.touched \cup m.touched \cup w.touched)
                                   EXCEPT !.probed = e.probed] :
                                w \in {writeFile(m.fs, e.val, content)} }) :
                     m \in {mkdirRecursive(e.fs, pathDirname(e.val))} }) :
          e \in {ensureInsideWorkspace(f, userPath, "write")} })

listDir(f, userPath) ==
    The({ IF ~e.ok THEN e
          ELSE The({ [Res(e.fs, r.ok, r.val, r.err, e.touched \cup r.touched)
                        EXCEPT !.probed = e.probed] :
                     r \in {readdir(e.fs, e.val)} }) :
          e \in {ensureInsideWorkspace(f, userPath, "list")} })

remove(f, userPath) ==
    The({ IF ~e.ok THEN e
          ELSE The({ [Res(r.fs, r.ok, Null, r.err, e.touched \cup r.touched)
                        EXCEPT !.probed = e.probed] :
                     r \in {rm(e.fs, e.val)} }) :
          e \in {ensureInsideWorkspace(f, userPath, "delete")} })

(***************************************************************************)
(* Inputs and initial filesystems                                          *)
(***************************************************************************)
MaxSegs == 4
MaxCalls == 2

Modes == {"read", "write", "list", "delete"}

\* user paths for the lexical checks: a prefix, then segments joined by "/"
PrefixChoices ==
    { <<>>, <<"/">>, <<"\\">>, <<"/", "/">>, <<"\\", "\\">>,
      <<"a", ":">>, <<"a", ":", "/">>, <<" ">> }
SegChoices == { <<"a">>, <<"o">>, <<".">>, <<".", ".">>, <<".", ".", "a">> }
PathInputs ==
    { pre \o JoinWith(ss, "/") : pre \in PrefixChoices, ss \in SeqsUpTo(SegChoices, MaxSegs) }

\* user paths for the filesystem calls
FsInputs ==
    { JoinWith(ss, "/") :
        ss \in { << <<"a">> >>, << <<"l">> >>, << <<"s">> >>, << <<".">> >>, << <<" ">> >>,
                 << <<"a">>, <<".", ".">> >>,
                 << <<"a">>, <<"l">> >>, << <<"a">>, <<"s">> >>, << <<"l">>, <<"s">> >>,
                 << <<".", ".">>, <<"o">>, <<"s">> >>, << <<"a">>, <<".", ".">>, <<"l">> >> } }

Contents == { <<"x">>, <<"y", "y">> }
\* contents for the WorkspaceFS calls: also a character of two bytes, a string
\* that is not well-formed, and one of MAX_WRITE_BYTES - 1 bytes
FsContents == Contents \cup { <<TwoByteChar>>, <<LoneSurrogate>>, <<LongRun>> }
MaxBytesChoices == { DefaultMaxBytes, 0, 1 }

\* outside the workspace: /o, a directory, and /o/s, a file
OutsideFs ==
    (<<>> :> Dir) @@ (<< <<"o">> >> :> Dir) @@ (<< <<"o">>, <<"s">> >> :> File(<<"s">>))

NoNode == [kind |-> "none", content |-> <<>>, target |-> <<>>]

LinkTargets ==
    { << <<"o">> >>, << <<"o">>, <<"s">> >>, << <<"o">>, <<"a">> >>, << <<"w">>, <<"a">> >> }

With(f, p, node) == IF node.kind = "none" THEN f ELSE Put(f, p, node)

\* a workspace holding a (anything), a/l (when a is a directory) and l (a link or nothing)
WorkspaceFsWith(a, al, l) ==
    With(With(With(Put(OutsideFs, WorkspaceRoot, Dir),
                   Append(WorkspaceRoot, <<"a">>), a),
              WorkspaceRoot \o << <<"a">>, <<"l">> >>, al),
         Append(WorkspaceRoot, <<"l">>), l)

InitFs ==
    { WorkspaceFsWith(a, NoNode, l) :
        a \in {NoNode, File(<<"x">>)} \cup { Link(t) : t \in LinkTargets },
        l \in {NoNode} \cup { Link(t) : t \in LinkTargets } }
    \cup
    { WorkspaceFsWith(Dir, al, l) :
        al \in {NoNode, File(<<"x">>), Link(<< <<"o">>, <<"s">> >>)},
        l \in {NoNode} \cup { Link(t) : t \in LinkTargets } }
    \cup
    { OutsideFs, Put(OutsideFs, WorkspaceRoot, Link(<< <<"o">> >>)),
      Put(OutsideFs, WorkspaceRoot, File(<<"x">>)) }

\* the workspace the composed program starts from: /w/a/
PlainFs == WorkspaceFsWith(Dir, NoNode, NoNode)

\* the filesystems path validation is run on: the plain workspace, one where a is
\* a link to the outside, a root that does not exist yet, a root that is a link
\* (to a directory, to nothing) and a root that is a regular file
PathFs ==
    { PlainFs,
      WorkspaceFsWith(Link(<< <<"o">> >>), NoNode, NoNode),
      OutsideFs,
      Put(OutsideFs, WorkspaceRoot, Link(<< <<"o">> >>)),
      Put(OutsideFs, WorkspaceRoot, Link(<< <<"o">>, <<"a">> >>)),
      Put(OutsideFs, WorkspaceRoot, File(<<"x">>)) }

(***************************************************************************)
(* The state of the composed program after main() has started it           *)
(***************************************************************************)
\* data/tasks.json as SchedulerEngine.load finds it: one enabled task that writes,
\* one disabled task that deletes
TasksFile ==
    << [id |-> "t1", enabled |-> TRUE, lastRun |-> FALSE,
        action |-> [type |-> "runTool", toolName |-> "file.write",
                    args |-> [path |-> <<"s">>, content |-> <<"x">>]]],
       [id |-> "t2", enabled |-> FALSE, lastRun |-> FALSE,
        action |-> [type |-> "runTool", toolName |-> "file.delete",
                    args |-> [path |-> <<"s">>, content |-> <<>>]]] >>

\* the task ids in use
TaskIds == { "t1", "t2", "t3" }

\* tasks.json: absent, or holding {tasks: [...]}
NoTasksJson == [exists |-> FALSE, tasks |-> <<>>]

\* SchedulerEngine.save(): tasks.json is written with the task list as it is now
save(ts) == [exists |-> TRUE, tasks |-> ts]

\* SchedulerEngine.load(): the task list tasks.json holds, [] when it cannot be read
load(file) == IF file.exists THEN file.tasks ELSE <<>>

\* the mail channel before start(), and a conversation no call was made for
NoMail == [inbox |-> <<>>, seen |-> {}, polls |-> <<>>, handled |-> <<>>, sent |-> <<>>,
           overlapped |-> FALSE]
NoConv == [nextMsgNo |-> 1, calls |-> <<>>, returned |-> <<>>]

\* getEnabledTasks()
getEnabledTasks(ts) == SelectSeq(ts, LAMBDA t : t.enabled)

\* SchedulerRunner.start(): one job per enabled task, keyed by task id
startJobs(ts) ==
    LET en == getEnabledTasks(ts)
    IN [id \in { en[i].id : i \in 1..Len(en) } |->
            (CHOOSE t \in { en[i] : i \in 1..Len(en) } : t.id = id)]

InitApp ==
    /\ pending = <<>>
    /\ nextUuid = 0
    /\ listeners = <<>>
    /\ notified = <<>>
    /\ audit = <<>>
    /\ reqs = <<>>
    /\ tasks = TasksFile
    /\ jobs = startJobs(TasksFile)
    /\ runs = <<>>
    /\ executions = <<>>
    /\ ledgerCalls = <<>>
    /\ tasksJson = save(TasksFile)
    /\ crons = [id \in TaskIds |-> IF id \in DOMAIN startJobs(TasksFile) THEN 1 ELSE 0]
    /\ mail = NoMail
    /\ conv = NoConv

(***************************************************************************)
(* WorkspaceFS calls as steps                                              *)
(***************************************************************************)
Inside(q) == IsPrefix(WorkspaceRoot, q)

\* at call time: userPath passes the lexical checks and the resolved path or one
\* of its ancestors below the root is a symbolic link
LinkOnPath(f, userPath) ==
    /\ lexicalCheck(userPath) = ""
    /\ \E resolved \in {pathResolve(WorkspaceRoot, userPath)} :
          \E k \in (Len(WorkspaceRoot) + 1)..Len(resolved) :
             /\ SubSeq(resolved, 1, k) \in DOMAIN f
             /\ f[SubSeq(resolved, 1, k)].kind = "link"

NoCall ==
    [op |-> "none", userPath |-> <<>>, mode |-> "none", done |-> TRUE, ok |-> TRUE,
     err |-> "", val |-> Null, touched |-> {}, linked |-> FALSE, probed |-> {},
     content |-> <<>>, maxBytes |-> 0]

Called(op, userPath, mode, r, linked) ==
    [op |-> op, userPath |-> userPath, mode |-> mode, done |-> TRUE, ok |-> r.ok,
     err |-> r.err, val |-> r.val, touched |-> r.touched, linked |-> linked,
     probed |-> r.probed, content |-> <<>>, maxBytes |-> 0]

ReadText(u, maxBytes) ==
    /\ ncalls < MaxCalls
    /\ UNCHANGED appVars
    /\ ncalls' = ncalls + 1
    /\ \E r \in {readText(fs, u, maxBytes)} :
          /\ fs' = r.fs
          /\ last' = [Called("readText", u, "read", r, LinkOnPath(fs, u))
                         EXCEPT !.maxBytes = maxBytes]

WriteText(u, c) ==
    /\ ncalls < MaxCalls
    /\ UNCHANGED appVars
    /\ ncalls' = ncalls + 1
    /\ \E r \in {writeText(fs, u, c)} :
          /\ fs' = r.fs
          /\ last' = [Called("writeText", u, "write", r, LinkOnPath(fs, u))
                         EXCEPT !.content = c]

ListDir(u) ==
    /\ ncalls < MaxCalls
    /\ UNCHANGED appVars
    /\ ncalls' = ncalls + 1
    /\ \E r \in {listDir(fs, u)} :
          /\ fs' = r.fs
          /\ last' = Called("listDir", u, "list", r, LinkOnPath(fs, u))

Remove(u) ==
    /\ ncalls < MaxCalls
    /\ UNCHANGED appVars
    /\ ncalls' = ncalls + 1
    /\ \E r \in {remove(fs, u)} :
          /\ fs' = r.fs
          /\ last' = Called("remove", u, "delete", r, LinkOnPath(fs, u))

InitFS ==
    /\ fs \in InitFs
    /\ last = NoCall
    /\ ncalls = 0
    /\ InitApp

NextFS ==
    \/ \E u \in FsInputs, m \in MaxBytesChoices : ReadText(u, m)
    \/ \E u \in FsInputs, c \in FsContents : WriteText(u, c)
    \/ \E u \in FsInputs : ListDir(u)
    \/ \E u \in FsInputs : Remove(u)

SpecFS == InitFS /\ [][NextFS]_vars

\* path validation alone: one ensureInsideWorkspace call per user path, mode and
\* filesystem
EnsureInsideWorkspace ==
    /\ ~last.done
    /\ \E r \in {ensureInsideWorkspace(fs, last.userPath, last.mode)} :
          /\ fs' = r.fs
          /\ UNCHANGED <<ncalls, appVars>>
          /\ last' = Called("ensureInsideWorkspace", last.userPath, last.mode, r,
                            LinkOnPath(fs, last.userPath))

InitPath ==
    /\ fs \in PathFs
    /\ ncalls = 0
    /\ InitApp
    /\ last \in { [NoCall EXCEPT !.op = "ensureInsideWorkspace", !.userPath = u,
                                 !.mode = m, !.done = FALSE] :
                    u \in PathInputs, m \in Modes }

NextPath == EnsureInsideWorkspace

SpecPath == InitPath /\ [][NextPath]_vars

(***************************************************************************)
(* Claims about WorkspaceFS                                                *)
(***************************************************************************)
IsFsCall == last.done /\ last.op \in {"readText", "writeText", "listDir", "remove"}

\* C3: if p itself or an ancestor of p below the root is a symbolic link, then
\* readText, writeText, listDir and remove on p all fail with the
\* symlink-not-allowed error.
C3_SymlinkRejectedInEveryMode ==
    (IsFsCall /\ last.linked) => (~last.ok /\ last.err = SymlinkNotAllowed)

\* C4: no readText, writeText, listDir or remove call reads, creates, modifies or
\* deletes an object whose real location is outside the workspace root.
C4_Confinement ==
    IsFsCall => \A q \in last.touched : Inside(q)

\* a relative user path whose ".." segments take it out of the root
EscapesRoot(u) ==
    /\ ~posixIsAbsolute(u)
    /\ ~IsPrefix(WorkspaceRoot, pathResolve(WorkspaceRoot, u))

\* none of the checks that come before the escape check rejects u
PassesEarlierChecks(u) ==
    /\ ~(u = <<>> \/ trimIsEmpty(u))
    /\ ~win32IsAbsolute(u)
    /\ ~drivePrefix(u)
    /\ ~(startsWith(u, <<"\\", "\\">>) \/ startsWith(u, <<"/", "/">>))

IsEnsureCall == last.done /\ last.op = "ensureInsideWorkspace"

\* C5 as stated: every path ensureInsideWorkspace returns lies inside the root, and
\* every user path whose ".." segments make it resolve outside the root is
\* rejected with 'Path escapes workspace'.
C5_EscapeAlwaysReportedAsEscape ==
    IsEnsureCall =>
        /\ last.ok => IsPrefix(WorkspaceRoot, last.val)
        /\ EscapesRoot(last.userPath) =>
              (~last.ok /\ last.err = "Path escapes workspace")

\* C5 as amended: every path ensureInsideWorkspace returns lies inside the root;
\* every user path whose ".." segments make it resolve outside the root is
\* rejected, and with 'Path escapes workspace' whenever none of the earlier
\* checks (empty, absolute, drive, UNC) rejects it first, as for "../o" and
\* "a/../../o".
C5_LexicalContainment ==
    IsEnsureCall =>
        /\ last.ok => IsPrefix(WorkspaceRoot, last.val)
        /\ EscapesRoot(last.userPath) => ~last.ok
        /\ (EscapesRoot(last.userPath) /\ PassesEarlierChecks(last.userPath)) =>
              last.err = "Path escapes workspace"
        /\ last.userPath \in { <<".", ".", "/", "o">>,
                               <<"a", "/", ".", ".", "/", ".", ".", "/", "o">> } =>
              (~last.ok /\ last.err = "Path escapes workspace")

C5_Witness ==
    /\ IsEnsureCall
    /\ last.userPath = <<"a", "/", ".", ".", "/", ".", ".", "/", "o">>
    /\ EscapesRoot(last.userPath)
    /\ last.err = "Path escapes workspace"

\* the spellings the checks are about, read off the user path itself
BlankSpelling(u) == \A i \in 1..Len(u) : u[i] = " "
AbsoluteSpelling(u) ==
    \/ Len(u) >= 1 /\ u[1] \in {"/", "\\"}
    \/ Len(u) >= 3 /\ u[1] \in Letters /\ u[2] = ":" /\ u[3] \in {"/", "\\"}
DriveSpelling(u) == Len(u) >= 2 /\ u[1] \in Letters /\ u[2] = ":"
UncSpelling(u) ==
    Len(u) >= 2 /\ (SubSeq(u, 1, 2) = <<"/", "/">> \/ SubSeq(u, 1, 2) = <<"\\", "\\">>)

\* the root, or the resolved path or one of its ancestors below the root, is a
\* symbolic link
LinkAtOrBelowRoot(f, u) ==
    \E resolved \in {pathResolve(WorkspaceRoot, u)} :
       \E k \in Len(WorkspaceRoot)..Len(resolved) :
          /\ SubSeq(resolved, 1, k) \in DOMAIN f
          /\ f[SubSeq(resolved, 1, k)].kind = "link"

RejectedWith(reason) == ~last.ok /\ last.err = reason

\* C21: path validation reports the reason of the first check that fails, in the
\* order empty, absolute, drive-letter, UNC, escape, symlink, each check with
\* its own reason; an empty or whitespace-only user path is rejected with
\* 'Empty path' on every filesystem.
C21_FirstFailingCheckReported ==
    IsEnsureCall =>
        \E u \in {last.userPath} :
           /\ BlankSpelling(u) => RejectedWith("Empty path")
           /\ RejectedWith("Absolute path not allowed") <=>
                 (~BlankSpelling(u) /\ AbsoluteSpelling(u))
           /\ RejectedWith("Drive path not allowed") <=>
                 (~BlankSpelling(u) /\ ~AbsoluteSpelling(u) /\ DriveSpelling(u))
           /\ RejectedWith("UNC path not allowed") <=>
                 (~BlankSpelling(u) /\ ~AbsoluteSpelling(u) /\ ~DriveSpelling(u)
                    /\ UncSpelling(u))
           /\ RejectedWith("Path escapes workspace") =>
                 (~BlankSpelling(u) /\ ~AbsoluteSpelling(u) /\ ~DriveSpelling(u)
                    /\ ~UncSpelling(u))
           /\ (EscapesRoot(u) /\ ~BlankSpelling(u) /\ ~AbsoluteSpelling(u)
                 /\ ~DriveSpelling(u) /\ ~UncSpelling(u)) =>
                 RejectedWith("Path escapes workspace")
           /\ RejectedWith(SymlinkNotAllowed) =>
                 (~BlankSpelling(u) /\ ~AbsoluteSpelling(u) /\ ~DriveSpelling(u)
                    /\ ~UncSpelling(u) /\ ~EscapesRoot(u) /\ LinkAtOrBelowRoot(fs, u))
           /\ Cardinality({"Empty path", "Absolute path not allowed",
                            "Drive path not allowed", "UNC path not allowed",
                            "Path escapes workspace", SymlinkNotAllowed}) = 6

\* a path that is absolute, has a drive letter and leaves the root, on a
\* workspace whose root is a link: the absolute reason is reported
C21_Witness ==
    /\ IsEnsureCall
    /\ last.userPath = <<"a", ":", "/", ".", ".">>
    /\ WorkspaceRoot \in DOMAIN fs
    /\ fs[WorkspaceRoot].kind = "link"
    /\ RejectedWith("Absolute path not allowed")

\* a whitespace-only path on a filesystem where the root does not exist
C21_BlankWitness ==
    /\ IsEnsureCall
    /\ last.userPath = <<" ">>
    /\ WorkspaceRoot \notin DOMAIN fs
    /\ RejectedWith("Empty path")

\* C22: every user path that begins with two backslashes or two forward slashes
\* is rejected with 'UNC path not allowed', and every user path with a
\* drive-letter prefix that is not absolute is rejected with 'Drive path not
\* allowed'.
C22_UncAndDriveReasons ==
    IsEnsureCall =>
        /\ UncSpelling(last.userPath) => RejectedWith("UNC path not allowed")
        /\ (DriveSpelling(last.userPath) /\ ~AbsoluteSpelling(last.userPath)) =>
              RejectedWith("Drive path not allowed")

\* the drive-letter half of C22 alone
C22_DriveReason ==
    IsEnsureCall =>
        ((DriveSpelling(last.userPath) /\ ~AbsoluteSpelling(last.userPath)) =>
              RejectedWith("Drive path not allowed"))

\* no call is ever rejected with the UNC reason
C22_UncReasonNeverReported ==
    IsEnsureCall => ~RejectedWith("UNC path not allowed")

LexicalReasons ==
    {"Empty path", "Absolute path not allowed", "Drive path not allowed",
     "UNC path not allowed", "Path escapes workspace"}

\* C23: a user path rejected as empty, absolute, drive-letter, UNC or escaping is
\* rejected before any filesystem access: the root is neither created nor
\* inspected and the filesystem is left unchanged.
C23_LexicalRejectionTouchesNothing ==
    [][ (~last.done /\ last'.done /\ last'.op = "ensureInsideWorkspace"
         /\ ~last'.ok /\ last'.err \in LexicalReasons) =>
            /\ fs' = fs
            /\ last'.probed = {}
            /\ last'.touched = {} ]_vars

\* an escaping path on a filesystem without the root: rejected, root still absent
C23_Witness ==
    /\ IsEnsureCall
    /\ last.userPath = <<".", ".", "/", "o">>
    /\ RejectedWith("Path escapes workspace")
    /\ WorkspaceRoot \notin DOMAIN fs
    /\ last.probed = {}

\* one ensureInsideWorkspace step whose user path passes the lexical checks
ValidationStep ==
    /\ ~last.done /\ last'.done /\ last'.op = "ensureInsideWorkspace"
    /\ ~(~last'.ok /\ last'.err \in LexicalReasons)

RootIsLink(f) == WorkspaceRoot \in DOMAIN f /\ f[WorkspaceRoot].kind = "link"

\* the four operations on user path u, as they would run on filesystem f
OperationsOn(f, u) ==
    << readText(f, u, DefaultMaxBytes), writeText(f, u, <<"x">>), listDir(f, u), remove(f, u) >>

\* C24: for every call that passes the lexical checks the root exists afterwards:
\* an absent root is created as a directory, a present one is left as it is, and
\* repeating the call creates nothing more; a root that is itself a symbolic
\* link makes the call, and every operation in every mode, fail with the symlink
\* error before any path below the root is inspected.
C24_RootCreatedOnceAndNeverALink ==
    [][ ValidationStep =>
          /\ WorkspaceRoot \in DOMAIN fs'
          /\ WorkspaceRoot \notin DOMAIN fs =>
                (fs' = Put(fs, WorkspaceRoot, Dir) /\ last'.touched = {WorkspaceRoot})
          /\ WorkspaceRoot \in DOMAIN fs => (fs' = fs /\ last'.touched = {})
          /\ \E again \in {ensureInsideWorkspace(fs', last'.userPath, last'.mode)} :
                again.fs = fs' /\ again.touched = {}
          /\ RootIsLink(fs) =>
                /\ ~last'.ok /\ last'.err = SymlinkNotAllowed
                /\ last'.probed = {WorkspaceRoot}
                /\ \E ops \in {OperationsOn(fs, last'.userPath)} :
                      \A i \in 1..Len(ops) :
                         /\ ~ops[i].ok /\ ops[i].err = SymlinkNotAllowed
                         /\ ops[i].probed = {WorkspaceRoot} /\ ops[i].touched = {}
                         /\ ops[i].fs = fs ]_<<fs, last.done>>

\* a call on a filesystem without the root: the root has been created
C24_Witness ==
    /\ IsEnsureCall
    /\ last.ok
    /\ last.touched = {WorkspaceRoot}
    /\ fs[WorkspaceRoot] = Dir

\* a call on a root that is a link to a directory holding the target
C24_LinkRootWitness ==
    /\ IsEnsureCall
    /\ RootIsLink(fs)
    /\ last.userPath = <<"a">>
    /\ last.mode = "delete"
    /\ RejectedWith(SymlinkNotAllowed)

\* this step is a readText(p, maxBytes) that directly follows a writeText(p, c)
\* which returned, with c within maxBytes bytes
ReadsBackWrite ==
    /\ last.op = "writeText" /\ last.ok
    /\ last'.op = "readText" /\ ncalls' = ncalls + 1
    /\ last'.userPath = last.userPath
    /\ byteLength(utf8Encode(last.content)) <= last'.maxBytes

WellFormed(str) == \A i \in 1..Len(str) : str[i] # LoneSurrogate

\* C28: round trip: writeText(p, c) followed by readText(p) returns exactly c, for
\* any p that resolves inside the root and any c within the byte budget.
C28_RoundTrip ==
    [][ ReadsBackWrite => (last'.ok /\ last'.val = last.content) ]_ncalls

\* C28 where neither p nor an ancestor of p below the root is a symbolic link and
\* c has no unpaired surrogate
C28_RoundTripWithoutLinksWellFormed ==
    [][ (ReadsBackWrite /\ ~last.linked /\ WellFormed(last.content)) =>
            (last'.ok /\ last'.val = last.content) ]_ncalls

\* C28 where c has no unpaired surrogate: fails through links alone
C28_RoundTripWellFormed ==
    [][ (ReadsBackWrite /\ WellFormed(last.content)) =>
            (last'.ok /\ last'.val = last.content) ]_ncalls

\* C28 where no link is on the way: fails through the encoding alone
C28_RoundTripWithoutLinks ==
    [][ (ReadsBackWrite /\ ~last.linked) => (last'.ok /\ last'.val = last.content) ]_ncalls

\* the user path names a regular file of the workspace, no link on the way
NamesFile(f, u) ==
    /\ ~BlankSpelling(u) /\ ~AbsoluteSpelling(u) /\ ~DriveSpelling(u) /\ ~EscapesRoot(u)
    /\ ~LinkAtOrBelowRoot(f, u)
    /\ pathResolve(WorkspaceRoot, u) \in DOMAIN f
    /\ f[pathResolve(WorkspaceRoot, u)].kind = "file"

\* the bytes stored at the file the user path names
StoredAt(f, u) == f[pathResolve(WorkspaceRoot, u)].content

IsReadText == last.done /\ last.op = "readText"

\* C29: readText(p, maxBytes) fails with 'File too large' exactly when the stored
\* content at p is longer than maxBytes bytes; content of exactly maxBytes bytes
\* or fewer is returned.
C29_TooLargeExactlyAboveMaxBytes ==
    IsReadText =>
        /\ NamesFile(fs, last.userPath) =>
              \E stored \in {StoredAt(fs, last.userPath)} :
                 /\ byteLength(stored) > last.maxBytes =>
                       RejectedWith("File too large")
                 /\ byteLength(stored) <= last.maxBytes =>
                       (last.ok /\ last.val = utf8Decode(stored))
        /\ RejectedWith("File too large") =>
              \E q \in last.touched :
                 /\ q \in DOMAIN fs /\ fs[q].kind = "file"
                 /\ byteLength(fs[q].content) > last.maxBytes

\* a file of exactly maxBytes bytes has been returned
C29_Witness ==
    /\ IsReadText
    /\ NamesFile(fs, last.userPath)
    /\ last.maxBytes = 1
    /\ byteLength(StoredAt(fs, last.userPath)) = 1
    /\ last.ok /\ last.val = <<"x">>

\* one character of two bytes is too large for maxBytes = 1
C29_TwoBytesWitness ==
    /\ IsReadText
    /\ NamesFile(fs, last.userPath)
    /\ last.maxBytes = 1
    /\ utf8Decode(StoredAt(fs, last.userPath)) = <<TwoByteChar>>
    /\ RejectedWith("File too large")

\* this step is a remove(p) call
RemoveStep == last'.op = "remove" /\ ncalls' = ncalls + 1

\* the user path is one validation accepts when no link is on the way
PlainPath(f, u) ==
    /\ ~BlankSpelling(u) /\ ~AbsoluteSpelling(u) /\ ~DriveSpelling(u) /\ ~EscapesRoot(u)
    /\ ~LinkAtOrBelowRoot(f, u)

\* nothing exists at q or below it
GoneFrom(f, q) == \A x \in DOMAIN f : ~IsPrefix(q, x)

\* f and g differ at most by the root, created on demand
SameButRoot(f, g) == g = f \/ (WorkspaceRoot \notin DOMAIN f /\ g = Put(f, WorkspaceRoot, Dir))

\* a second remove(p) ends as the first did and removes nothing more
SecondRemoveSame ==
    \E again \in {remove(fs', last'.userPath)} :
       /\ again.ok = last'.ok /\ again.err = last'.err
       /\ again.fs = fs'

\* C30: remove is recursive and idempotent: after remove(p) neither p nor anything
\* below it exists, removing a path that does not exist succeeds without error
\* and changes nothing, and a second remove(p) has the same outcome as the first.
C30_RemoveRecursiveIdempotent ==
    [][ RemoveStep =>
          \E p \in {pathResolve(WorkspaceRoot, last'.userPath)} :
             /\ last'.ok => GoneFrom(fs', p)
             /\ (PlainPath(fs, last'.userPath) /\ GoneFrom(fs, p)) =>
                   (last'.ok /\ SameButRoot(fs, fs'))
             /\ SecondRemoveSame ]_ncalls

\* C30 for the paths that do not lead through a regular file
C30_ExceptBelowAFile ==
    [][ RemoveStep =>
          \E p \in {pathResolve(WorkspaceRoot, last'.userPath)} :
             /\ last'.ok => GoneFrom(fs', p)
             /\ (PlainPath(fs, last'.userPath) /\ GoneFrom(fs, p)
                 /\ \A k \in 1..(Len(p) - 1) :
                       SubSeq(p, 1, k) \in DOMAIN fs => fs[SubSeq(p, 1, k)].kind # "file") =>
                   (last'.ok /\ SameButRoot(fs, fs'))
             /\ SecondRemoveSame ]_ncalls

\* a directory holding a file has been removed with what it held
C30_RecursiveWitness ==
    /\ last.op = "remove" /\ last.ok
    /\ last.userPath = <<"a">>
    /\ Cardinality(last.touched) = 2
    /\ GoneFrom(fs, Append(WorkspaceRoot, <<"a">>))

\* C31: path validation rejects with 'Path escapes workspace' only paths whose
\* normalized location is outside the root; a relative path that stays inside
\* the root but whose first segment merely begins with two dots is accepted.
C31_EscapeReasonOnlyOutsideRoot ==
    IsEnsureCall =>
        /\ RejectedWith("Path escapes workspace") => EscapesRoot(last.userPath)
        /\ (last.userPath = <<".", ".", "a", "/", "a">> /\ ~RootIsLink(fs)) => last.ok

\* C31 for the paths none of whose segments begins with two dots without being ".."
C31_ExceptDotDotNames ==
    IsEnsureCall =>
        ((RejectedWith("Path escapes workspace")
          /\ \A seg \in { Split(last.userPath, sep)[i] :
                             i \in 1..Len(Split(last.userPath, sep)) } :
                (IsPrefix(<<".", ".">>, seg) => seg = <<".", ".">>))
            => EscapesRoot(last.userPath))

\* the root and the directories between the root and q, q included
FromRootTo(q) == { SubSeq(q, 1, k) : k \in Len(WorkspaceRoot)..Len(q) }

\* C32: in write mode the symlink walk covers only the existing ancestors of the
\* target's parent directory, from the root downward, and stops at the first
\* component that does not exist; the target itself is not inspected, so a
\* write to a path whose final component is an existing symbolic link passes
\* validation.
C32_WriteModeWalksParentOnly ==
    (IsEnsureCall /\ last.mode = "write" /\ ~(~last.ok /\ last.err \in LexicalReasons)
       /\ pathResolve(WorkspaceRoot, last.userPath) # WorkspaceRoot) =>
        \E p \in {pathResolve(WorkspaceRoot, last.userPath)} :
           /\ last.probed \subseteq FromRootTo(pathDirname(p))
           /\ p \notin last.probed
           /\ WorkspaceRoot \in last.probed
           /\ \A q \in FromRootTo(pathDirname(p)) :
                 q # WorkspaceRoot =>
                    \* q is looked at exactly when the component before it was
                    \* looked at, exists and is not a link
                    (q \in last.probed <=>
                       /\ pathDirname(q) \in last.probed
                       /\ pathDirname(q) \in DOMAIN fs
                       /\ fs[pathDirname(q)].kind # "link")
           /\ last.ok <=> \A q \in last.probed : q \in DOMAIN fs => fs[q].kind # "link"

\* a write to a path that is itself an existing symbolic link has passed
C32_Witness ==
    /\ IsEnsureCall /\ last.mode = "write"
    /\ last.userPath = <<"a">>
    /\ Append(WorkspaceRoot, <<"a">>) \in DOMAIN fs
    /\ fs[Append(WorkspaceRoot, <<"a">>)].kind = "link"
    /\ last.ok
    /\ last.probed = {WorkspaceRoot}

\* the user paths that normalize to the root itself
RootSpellings == { <<".">>, <<"a", "/", ".", ".">> }

\* any WorkspaceFS call
FsCallStep == ncalls' = ncalls + 1 /\ last'.op \in {"readText", "writeText", "listDir", "remove"}

ValidationErrors == LexicalReasons \cup {SymlinkNotAllowed}

\* C33: a path that normalizes to the workspace root itself ('.' or 'a/..') passes
\* validation in every mode, so remove('.') deletes the whole workspace tree
\* including the root directory, and the next operation recreates an empty root.
C33_RootItselfCanBeRemoved ==
    [][ FsCallStep =>
          /\ (last'.userPath \in RootSpellings /\ ~RootIsLink(fs)) =>
                /\ last'.err \notin ValidationErrors
                /\ (last'.op = "remove" /\ WorkspaceRoot \in DOMAIN fs
                      /\ fs[WorkspaceRoot].kind = "dir") =>
                          (last'.ok /\ GoneFrom(fs', WorkspaceRoot))
          /\ (WorkspaceRoot \notin DOMAIN fs /\ last'.err \notin LexicalReasons) =>
                \/ /\ WorkspaceRoot \in DOMAIN fs' /\ fs'[WorkspaceRoot] = Dir
                   /\ \A x \in DOMAIN fs' :
                         (IsPrefix(WorkspaceRoot, x) /\ x # WorkspaceRoot) => x \in last'.touched
                \/ /\ last'.op = "remove" /\ last'.userPath \in RootSpellings
                   /\ fs' = fs ]_ncalls

\* remove('.') has deleted the root and the two objects it held
C33_Witness ==
    /\ last.op = "remove" /\ last.ok
    /\ last.userPath = <<".">>
    /\ WorkspaceRoot \notin DOMAIN fs
    /\ Cardinality(last.touched) >= 3

(***************************************************************************)
(* createFileTools: every WorkspaceFS failure becomes {ok: false, error}   *)
(***************************************************************************)
Out(ok, data, error) == [ok |-> ok, data |-> data, error |-> error]
NoOut == Out(FALSE, Null, "no result")

\* a FileToolsApi method without its try/catch: the error leaves the method
ToolUncaught(r, data) ==
    [fs |-> r.fs, out |-> IF r.ok THEN Out(TRUE, data, "") ELSE NoOut, raised |-> ~r.ok]

\* a FileToolsApi call: the filesystem after it, the FileToolResult returned and
\* whether the call raised instead of returning (the catch returns on every error)
Tool(r, data) ==
    [fs |-> r.fs, out |-> IF r.ok THEN Out(TRUE, data, "") ELSE Out(FALSE, Null, r.err),
     raised |-> FALSE]

fileToolsList(f, userPath) ==
    The({ Tool(r, r.val) : r \in {listDir(f, IF userPath = <<>> THEN <<".">> ELSE userPath)} })

fileToolsRead(f, userPath, maxBytes) ==
    The({ Tool(r, r.val) : r \in {readText(f, userPath, maxBytes)} })

fileToolsWrite(f, userPath, content) ==
    The({ Tool(r, "written") : r \in {writeText(f, userPath, content)} })

fileToolsDelete(f, userPath) ==
    The({ Tool(r, "deleted") : r \in {remove(f, userPath)} })

(***************************************************************************)
(* The gateway on its own: one FileToolsApi call on any of the initial     *)
(* filesystems.  last records the call with what the WorkspaceFS method    *)
(* underneath did on the same filesystem (ok, err, val) and what the       *)
(* gateway gave back (out, raised).                                        *)
(***************************************************************************)
MaxToolCalls == 1

ToolInputs == FsInputs \cup { <<>> }

ToolCalled(op, userPath, r, t) ==
    [op |-> op, userPath |-> userPath, mode |-> "tool", done |-> TRUE, ok |-> r.ok,
     err |-> r.err, val |-> r.val, touched |-> r.touched, linked |-> FALSE,
     out |-> t.out, raised |-> t.raised]

ToolCall(op, userPath, r, t) ==
    /\ fs' = t.fs
    /\ last' = ToolCalled(op, userPath, r, t)

FileToolsList(u) ==
    /\ ncalls < MaxToolCalls
    /\ UNCHANGED appVars
    /\ ncalls' = ncalls + 1
    /\ \E r \in {listDir(fs, IF u = <<>> THEN <<".">> ELSE u)} :
       \E t \in {fileToolsList(fs, u)} : ToolCall("file.list", u, r, t)

FileToolsRead(u, maxBytes) ==
    /\ ncalls < MaxToolCalls
    /\ UNCHANGED appVars
    /\ ncalls' = ncalls + 1
    /\ \E r \in {readText(fs, u, maxBytes)} :
       \E t \in {fileToolsRead(fs, u, maxBytes)} : ToolCall("file.read", u, r, t)

FileToolsWrite(u, c) ==
    /\ ncalls < MaxToolCalls
    /\ UNCHANGED appVars
    /\ ncalls' = ncalls + 1
    /\ \E r \in {writeText(fs, u, c)} :
       \E t \in {fileToolsWrite(fs, u, c)} : ToolCall("file.write", u, r, t)

FileToolsDelete(u) ==
    /\ ncalls < MaxToolCalls
    /\ UNCHANGED appVars
    /\ ncalls' = ncalls + 1
    /\ \E r \in {remove(fs, u)} :
       \E t \in {fileToolsDelete(fs, u)} : ToolCall("file.delete", u, r, t)

InitTools ==
    /\ fs \in InitFs
    /\ last = NoCall
    /\ ncalls = 0
    /\ InitApp

NextTools ==
    \/ \E u \in ToolInputs : FileToolsList(u)
    \/ \E u \in ToolInputs, b \in MaxBytesChoices : FileToolsRead(u, b)
    \/ \E u \in ToolInputs, c \in Contents : FileToolsWrite(u, c)
    \/ \E u \in ToolInputs : FileToolsDelete(u)

SpecTools == InitTools /\ [][NextTools]_vars

IsToolCall == last.done /\ last.op \in {"file.list", "file.read", "file.write", "file.delete"}

\* the data a successful call carries: the entries, the text, or the fixed word
DataOf(c) ==
    IF c.op \in {"file.list", "file.read"} THEN c.val
    ELSE IF c.op = "file.write" THEN "written" ELSE "deleted"

\* C20: list, read, write and delete never raise: every failure of the path
\* validation or of the store underneath is returned as {ok: false, error} with
\* the failure's message, and every success as {ok: true, data}.
C20_GatewayNeverRaises ==
    IsToolCall =>
        /\ ~last.raised
        /\ last.out.ok = last.ok
        /\ IF last.ok THEN last.out.data = DataOf(last)
           ELSE last.out.error = last.err /\ last.err # ""

C20_Witness ==
    /\ IsToolCall
    /\ last.op = "file.read"
    /\ ~last.out.ok /\ last.out.error = "File too large"

(***************************************************************************)
(* ApprovalManager.  The timestamp `at` of a PendingTool is left out.      *)
(***************************************************************************)
PendingTool(id, tool, args) == [id |-> id, tool |-> tool, args |-> args]

\* this.pending.get(id): the record, or Null for undefined
pendingGet(pend, id) ==
    IF \E i \in 1..Len(pend) : pend[i].id = id
    THEN pend[CHOOSE i \in 1..Len(pend) : pend[i].id = id]
    ELSE Null

\* pendingDelete deleting nothing
pendingDeleteNothing(pend, id) == pend

\* this.pending.delete(id)
pendingDelete(pend, id) == SelectSeq(pend, LAMBDA x : x.id # id)

\* randomUUID() as a generator that returns the same id again
randomUUIDRepeating(n) == 1

\* randomUUID() when n ids have been issued: an id never returned before
randomUUID(n) == n + 1

\* this.pending.set(id, record): a Map keeps insertion order, a key already there
\* keeps its place and gets the new value
pendingSet(pend, rec) ==
    IF \E i \in 1..Len(pend) : pend[i].id = rec.id
    THEN [i \in 1..Len(pend) |-> IF pend[i].id = rec.id THEN rec ELSE pend[i]]
    ELSE Append(pend, rec)

\* add(tool, args) with the id randomUUID returned
add(pend, id, tool, args) == pendingSet(pend, PendingTool(id, tool, args))

\* list() handing out the ledger's own collection instead of a copy
listLiveView(pend) == [fresh |-> FALSE, items |-> pend]

\* list(): Array.from(this.pending.values()), a new array of the records in
\* insertion order
list(pend) == [fresh |-> TRUE, items |-> pend]

\* what the holder of a list() result reads from it while the ledger holds pend
Read(snap, pend) == IF snap.fresh THEN snap.items ELSE pend

\* how many nested calls the call stack holds: a call made beyond that raises
\* RangeError
MaxStack == 3

\* the outcome of approve / reject: the ledger after it, the observer invocations
\* made before it ended, the value returned (when it returns), whether it raised,
\* and what the observers' own calls into the ledger (inner) gave them
Ledger(pend, calls, ret, threw) ==
    [pending |-> pend, calls |-> calls, ret |-> ret, threw |-> threw, inner |-> <<>>]

\* the call observer `listener`, invoked for id, made into the ledger: list()
\* (ret: the array), approve(id) or reject(id) (ret: what it returned, Null when
\* it raised; calls: the invocations it made)
Inner(listener, op, id, ret, threw, calls) ==
    [listener |-> listener, op |-> op, id |-> id, ret |-> ret, threw |-> threw,
     calls |-> calls]

RECURSIVE notify(_, _, _, _, _, _)
RECURSIVE approve(_, _, _, _)
RECURSIVE reject(_, _, _, _)

\* the body of an observer of the given kind, invoked as fn(id, approved) while
\* the ledger holds pend: "record" only notes the call, "throw" throws, "list",
\* "approve" and "reject" call list(), approve(id) and reject(id)
observer(kind, i, pend, lst, id, stack) ==
    IF kind = "throw" THEN Ledger(pend, <<>>, Null, TRUE)
    ELSE IF kind = "list"
    THEN [Ledger(pend, <<>>, Null, FALSE)
            EXCEPT !.inner = <<Inner(i, "list", id, list(pend).items, FALSE, <<>>)>>]
    ELSE IF kind = "approve"
    THEN The({ [Ledger(a.pending, a.calls, Null, a.threw)
                  EXCEPT !.inner = <<Inner(i, "approve", id,
                                           IF a.threw THEN Null ELSE a.ret, a.threw,
                                           a.calls)>>
                                   \o a.inner] :
               a \in {approve(pend, lst, id, stack)} })
    ELSE IF kind = "reject"
    THEN The({ [Ledger(a.pending, a.calls, Null, a.threw)
                  EXCEPT !.inner = <<Inner(i, "reject", id,
                                           IF a.threw THEN Null ELSE a.ret, a.threw,
                                           a.calls)>>
                                   \o a.inner] :
               a \in {reject(pend, lst, id, stack)} })
    ELSE Ledger(pend, <<>>, Null, FALSE)

\* this.listeners.forEach(fn => fn(id, approved)) from observer i on: the
\* invocations made, in order, with what the observers did; an observer that
\* throws ends the forEach
notify(pend, lst, id, approved, i, stack) ==
    IF i > Len(lst) THEN Ledger(pend, <<>>, Null, FALSE)
    ELSE IF stack = 0
    THEN Ledger(pend, <<>>, Null, TRUE)
    ELSE The({ IF o.threw
               THEN [Ledger(o.pending,
                            <<[listener |-> i, id |-> id, approved |-> approved]>> \o o.calls,
                            Null, TRUE)
                       EXCEPT !.inner = o.inner]
               ELSE The({ [Ledger(n.pending,
                                  <<[listener |-> i, id |-> id, approved |-> approved]>>
                                     \o o.calls \o n.calls,
                                  Null, n.threw)
                             EXCEPT !.inner = o.inner \o n.inner] :
                          n \in {notify(o.pending, lst, id, approved, i + 1, stack)} }) :
               o \in {observer(lst[i].kind, i, pend, lst, id, stack - 1)} })

\* approve running the forEach before it looks the id up
approveNotifiesAbsent(pend, lst, id, stack) ==
    The({ The({ IF p = Null THEN Ledger(pend, n.calls, Null, n.threw)
                ELSE Ledger(pendingDelete(pend, id), n.calls, p, n.threw) :
                n \in {notify(pend, lst, id, TRUE, 1, stack)} }) :
          p \in {pendingGet(pend, id)} })

\* approve leaving the entry in the ledger
approveKeepsEntry(pend, lst, id, stack) ==
    The({ IF p = Null THEN Ledger(pend, <<>>, Null, FALSE)
          ELSE The({ Ledger(pend, n.calls, p, n.threw) :
                     n \in {notify(pend, lst, id, TRUE, 1, stack)} }) :
          p \in {pendingGet(pend, id)} })

\* approve running the forEach before it deletes the entry
approveNotifiesFirst(pend, lst, id, stack) ==
    IF stack = 0 THEN Ledger(pend, <<>>, Null, TRUE)
    ELSE The({ IF p = Null THEN Ledger(pend, <<>>, Null, FALSE)
               ELSE The({ [Ledger(pendingDelete(n.pending, id), n.calls, p, n.threw)
                             EXCEPT !.inner = n.inner] :
                          n \in {notify(pend, lst, id, TRUE, 1, stack)} }) :
               p \in {pendingGet(pend, id)} })

\* approve(id), with `stack` calls left on the call stack
approve(pend, lst, id, stack) ==
    IF stack = 0 THEN Ledger(pend, <<>>, Null, TRUE)
    ELSE The({ IF p = Null THEN Ledger(pend, <<>>, Null, FALSE)
               ELSE The({ [Ledger(n.pending, n.calls, p, n.threw) EXCEPT !.inner = n.inner] :
                          n \in {notify(pendingDelete(pend, id), lst, id, TRUE, 1, stack)} }) :
               p \in {pendingGet(pend, id)} })

\* reject leaving the entry in the ledger
rejectKeepsEntry(pend, lst, id, stack) ==
    The({ IF p = Null THEN Ledger(pend, <<>>, FALSE, FALSE)
          ELSE The({ Ledger(pend, n.calls, TRUE, n.threw) :
                     n \in {notify(pend, lst, id, FALSE, 1, stack)} }) :
          p \in {pendingGet(pend, id)} })

\* reject(id), with `stack` calls left on the call stack
reject(pend, lst, id, stack) ==
    IF stack = 0 THEN Ledger(pend, <<>>, Null, TRUE)
    ELSE The({ IF p = Null THEN Ledger(pend, <<>>, FALSE, FALSE)
               ELSE The({ [Ledger(n.pending, n.calls, TRUE, n.threw)
                             EXCEPT !.inner = n.inner] :
                          n \in {notify(pendingDelete(pend, id), lst, id, FALSE, 1, stack)} }) :
               p \in {pendingGet(pend, id)} })

\* onResolve(fn)
onResolve(lst, fn) == Append(lst, fn)

(***************************************************************************)
(* The ApprovalManager on its own: callers add, approve, reject, list and  *)
(* register observers in any order.  Every call is recorded in ledgerCalls *)
(* with what the ledger held before it (before, found, stored, nlst: the   *)
(* observers registered then) and what it did (ret, threw, calls: the      *)
(* observer invocations it made before it returned or raised, inner: the   *)
(* calls the observers made into the ledger meanwhile, after: what the     *)
(* ledger held when it ended).                                             *)
(***************************************************************************)
\* an observer that returns, and one that throws
ListenerKinds == { "record", "throw" }

\* those, and observers that call list(), approve(id) or reject(id) for the id
\* they are invoked with
ObserverKinds == ListenerKinds \cup { "list", "approve", "reject" }

MaxLedgerCalls == 5
MaxAdds == 2
MaxObservers == 2

AddInputs ==
    { [tool |-> "file.write", args |-> [path |-> <<"s">>, content |-> <<"x">>]],
      [tool |-> "file.delete", args |-> [path |-> <<"s">>, content |-> <<>>]] }

NoSnap == [fresh |-> TRUE, items |-> <<>>]

LedgerCall(op, id) ==
    [op |-> op, id |-> id, found |-> FALSE, stored |-> Null, ret |-> Null, threw |-> FALSE,
     calls |-> <<>>, inner |-> <<>>, nlst |-> Len(listeners), snap |-> NoSnap,
     kind |-> "", before |-> pending, after |-> pending]

Record(c) ==
    /\ Len(ledgerCalls) < MaxLedgerCalls
    /\ ledgerCalls' = Append(ledgerCalls, [c EXCEPT !.after = pending'])

LedgerAdd(in) ==
    /\ nextUuid < MaxAdds
    /\ UNCHANGED <<fs, callVars, restVars, listeners, notified, audit, reqs, tasks, jobs, runs, executions>>
    /\ \E id \in {randomUUID(nextUuid)} :
          /\ nextUuid' = nextUuid + 1
          /\ pending' = add(pending, id, in.tool, in.args)
          /\ Record([LedgerCall("add", id) EXCEPT !.ret = id,
                                                  !.stored = PendingTool(id, in.tool, in.args)])

\* an approve or reject call: a is what the ledger operation did
Resolved(op, id, a) ==
    /\ pending' = a.pending
    /\ notified' = notified \o a.calls
    /\ Record([LedgerCall(op, id) EXCEPT !.found = pendingGet(pending, id) # Null,
                                         !.stored = pendingGet(pending, id),
                                         !.ret = IF a.threw THEN Null ELSE a.ret,
                                         !.threw = a.threw, !.calls = a.calls,
                                         !.inner = a.inner])

LedgerApprove(id) ==
    /\ UNCHANGED <<fs, callVars, restVars, nextUuid, listeners, audit, reqs, tasks, jobs, runs, executions>>
    /\ \E a \in {approve(pending, listeners, id, MaxStack)} : Resolved("approve", id, a)

LedgerReject(id) ==
    /\ UNCHANGED <<fs, callVars, restVars, nextUuid, listeners, audit, reqs, tasks, jobs, runs, executions>>
    /\ \E a \in {reject(pending, listeners, id, MaxStack)} : Resolved("reject", id, a)

LedgerList ==
    /\ UNCHANGED <<fs, callVars, restVars, pending, nextUuid, listeners, notified, audit, reqs, tasks, jobs,
                   runs, executions>>
    /\ Record([LedgerCall("list", 0) EXCEPT !.snap = list(pending)])

LedgerOnResolve(kind) ==
    /\ Len(listeners) < MaxObservers
    /\ UNCHANGED <<fs, callVars, restVars, pending, nextUuid, notified, audit, reqs, tasks, jobs, runs,
                   executions>>
    /\ listeners' = onResolve(listeners, [kind |-> kind])
    /\ Record([LedgerCall("onResolve", 0) EXCEPT !.kind = kind])

InitLedger ==
    /\ fs = PlainFs
    /\ last = NoCall
    /\ ncalls = 0
    /\ InitApp

NextLedger ==
    \/ \E in \in AddInputs : LedgerAdd(in)
    \/ \E id \in 0..nextUuid : LedgerApprove(id)
    \/ \E id \in 0..nextUuid : LedgerReject(id)
    \/ LedgerList
    \/ \E k \in ObserverKinds : LedgerOnResolve(k)

SpecLedger == InitLedger /\ [][NextLedger]_vars

(***************************************************************************)
(* AuditLogger.log: one line appended to audit.jsonl, unless appendFile    *)
(* fails.  `id` is not a field of the entry: it names the pending request  *)
(* the entry was written for (0 for none), for the claims to refer to.     *)
(***************************************************************************)
AuditEntry(tool, args, result, detail, id) ==
    [tool |-> tool, args |-> args, result |-> result, detail |-> detail, id |-> id]

\* log written with fs.writeFile: the file is replaced by the new line
logOverwriting(trail, entry) == <<entry>>

log(trail, entry) == Append(trail, entry)

(***************************************************************************)
(* createHttpServer: the file tool and approval routes.  A request is      *)
(* received (its synchronous part runs), then its awaited calls complete   *)
(* one by one, other requests' steps in between.                           *)
(***************************************************************************)
MaxReqs == 3
MaxAuditFailures == 1
MaxListeners == 1
MaxFires == 1

\* a body.content for which typeof content !== "string"
NotAString == << "not a string" >>

ListPaths == { <<".">> }
\* <<>>: a body without path
ReadPaths == { <<"s">>, <<>> }
WritePaths == { <<"s">>, <<".", ".", "/", "o">> }

\* body.content around the route's checks: not a string; MAX_WRITE_BYTES + 1
\* one-byte characters; MAX_WRITE_BYTES characters that take one byte more;
\* exactly MAX_WRITE_BYTES bytes
OneByteOver == <<LongRun, "x", "x">>
OneCharUnderOneByteOver == <<LongRun, TwoByteChar>>
ExactlyMaxWriteBytes == <<LongRun, "x">>
EdgeContents == { NotAString, OneByteOver, OneCharUnderOneByteOver, ExactlyMaxWriteBytes }

Body(kind, pendingId, out, rejected, error) ==
    [kind |-> kind, pendingId |-> pendingId, out |-> out, rejected |-> rejected,
     error |-> error]
NoBody == Body("none", 0, NoOut, FALSE, "")

\* a request record: the inputs, where its handler stands (pc), what the ledger
\* call did (found: id was pending when called; stored: the record held then;
\* ret: what it returned, unless it threw; resolved: it returned the record /
\* true; p: the record the approve action goes on with; calls: the observer
\* invocations; nlst: the observers registered then), the tool result, and the
\* response
NewReq(route) ==
    [route |-> route, path |-> <<>>, content |-> <<>>, maxBytes |-> DefaultMaxBytes,
     id |-> 0, pc |-> "done", found |-> FALSE, stored |-> Null, p |-> Null,
     ret |-> Null, resolved |-> FALSE, threw |-> FALSE, calls |-> <<>>, nlst |-> 0,
     out |-> NoOut, auditFailed |-> FALSE, status |-> 0, body |-> NoBody]

\* sendJson(res, status, data)
sendJson(q, status, body) == [q EXCEPT !.pc = "done", !.status = status, !.body = body]

Receive(q) ==
    /\ Len(reqs) < MaxReqs
    /\ reqs' = Append(reqs, q)

\* POST /api/tools/file/list, up to the await of fileTools.list
HttpList(path) ==
    /\ Receive([NewReq("list") EXCEPT !.path = path, !.pc = "tool"])
    /\ UNCHANGED <<fs, callVars, restVars, ledgerCalls, pending, nextUuid, listeners, notified, audit, tasks, jobs,
                   runs, executions>>

\* POST /api/tools/file/read, up to the await of fileTools.read
HttpRead(path, maxBytes) ==
    /\ Receive(IF path = <<>>
               THEN sendJson(NewReq("read"), 400, Body("error", 0, NoOut, FALSE, "Missing path"))
               ELSE [NewReq("read") EXCEPT !.path = path, !.maxBytes = maxBytes, !.pc = "tool"])
    /\ UNCHANGED <<fs, callVars, restVars, ledgerCalls, pending, nextUuid, listeners, notified, audit, tasks, jobs,
                   runs, executions>>

\* the write route with the sandbox's lexical checks applied to body.path
HttpWriteValidating(path, content) ==
    LET q == [NewReq("write") EXCEPT !.path = path, !.content = content]
        id == randomUUID(nextUuid)
    IN IF path = <<>> \/ lexicalCheck(path) # ""
       THEN /\ Receive(sendJson(q, 400, Body("error", 0, NoOut, FALSE, "Missing path")))
            /\ UNCHANGED <<fs, callVars, restVars, ledgerCalls, pending, nextUuid, listeners, notified, audit, tasks,
                           jobs, runs, executions>>
       ELSE /\ Receive([q EXCEPT !.id = id, !.pc = "audit"])
            /\ nextUuid' = id
            /\ pending' = add(pending, id, "file.write", [path |-> path, content |-> content])
            /\ UNCHANGED <<fs, callVars, restVars, ledgerCalls, listeners, notified, audit, tasks, jobs, runs,
                           executions>>

\* POST /api/tools/file/write, up to the await of auditLogger.log
HttpWrite(path, content) ==
    LET q == [NewReq("write") EXCEPT !.path = path, !.content = content]
        id == randomUUID(nextUuid)
    IN IF path = <<>>
       THEN /\ Receive(sendJson(q, 400, Body("error", 0, NoOut, FALSE, "Missing path")))
            /\ UNCHANGED <<fs, callVars, restVars, ledgerCalls, pending, nextUuid, listeners, notified, audit, tasks,
                           jobs, runs, executions>>
       ELSE IF content = NotAString
       THEN /\ Receive(sendJson(q, 400,
                                Body("error", 0, NoOut, FALSE, "Missing or invalid content")))
            /\ UNCHANGED <<fs, callVars, restVars, ledgerCalls, pending, nextUuid, listeners, notified, audit, tasks,
                           jobs, runs, executions>>
       ELSE IF byteLength(utf8Encode(content)) > MaxWriteBytes
       THEN /\ Receive(sendJson(q, 413, Body("error", 0, NoOut, FALSE, "Content too large")))
            /\ UNCHANGED <<fs, callVars, restVars, ledgerCalls, pending, nextUuid, listeners, notified, audit, tasks,
                           jobs, runs, executions>>
       ELSE /\ Receive([q EXCEPT !.id = id, !.pc = "audit"])
            /\ nextUuid' = id
            /\ pending' = add(pending, id, "file.write", [path |-> path, content |-> content])
            /\ UNCHANGED <<fs, callVars, restVars, ledgerCalls, listeners, notified, audit, tasks, jobs, runs,
                           executions>>

\* POST /api/tools/file/delete, up to the await of auditLogger.log
HttpDelete(path) ==
    LET q == [NewReq("delete") EXCEPT !.path = path]
        id == randomUUID(nextUuid)
    IN IF path = <<>>
       THEN /\ Receive(sendJson(q, 400, Body("error", 0, NoOut, FALSE, "Missing path")))
            /\ UNCHANGED <<fs, callVars, restVars, ledgerCalls, pending, nextUuid, listeners, notified, audit, tasks,
                           jobs, runs, executions>>
       ELSE /\ Receive([q EXCEPT !.id = id, !.pc = "audit"])
            /\ nextUuid' = id
            /\ pending' = add(pending, id, "file.delete", [path |-> path, content |-> <<>>])
            /\ UNCHANGED <<fs, callVars, restVars, ledgerCalls, listeners, notified, audit, tasks, jobs, runs,
                           executions>>

\* what the ledger call of a request did, noted on the request
Noted(q, id, a, resolved) ==
    [q EXCEPT !.id = id, !.found = pendingGet(pending, id) # Null,
              !.stored = pendingGet(pending, id), !.nlst = Len(listeners),
              !.calls = a.calls, !.threw = a.threw, !.resolved = resolved,
              !.ret = IF a.threw THEN Null ELSE a.ret]

\* POST /api/approvals/:id/approve, up to the await of fileTools.write / delete
HttpApprove(id) ==
    /\ UNCHANGED <<fs, callVars, restVars, ledgerCalls, nextUuid, listeners, audit, tasks, jobs, runs, executions>>
    /\ \E a \in {approve(pending, listeners, id, MaxStack)} :
       \E q \in {Noted(NewReq("approve"), id, a, ~a.threw /\ a.ret # Null)} :
       /\ Receive(IF a.threw
                  THEN sendJson(q, 500, Body("error", 0, NoOut, FALSE, "observer threw"))
                  ELSE IF a.ret = Null
                  THEN sendJson(q, 404, Body("error", 0, NoOut, FALSE, "Not found"))
                  ELSE IF a.ret.tool \notin {"file.write", "file.delete"}
                  THEN sendJson([q EXCEPT !.p = a.ret], 400,
                                Body("error", 0, NoOut, FALSE, "Unknown tool"))
                  ELSE [q EXCEPT !.p = a.ret, !.pc = "tool"])
       /\ pending' = a.pending
       /\ notified' = notified \o a.calls

\* POST /api/approvals/:id/reject
HttpReject(id) ==
    /\ UNCHANGED <<fs, callVars, restVars, ledgerCalls, nextUuid, listeners, audit, tasks, jobs, runs, executions>>
    /\ \E a \in {reject(pending, listeners, id, MaxStack)} :
       \E q \in {Noted(NewReq("reject"), id, a, ~a.threw /\ a.ret)} :
       /\ Receive(IF a.threw
                  THEN sendJson(q, 500, Body("error", 0, NoOut, FALSE, "observer threw"))
                  ELSE sendJson(q, 200, Body("rejected", 0, NoOut, a.ret, "")))
       /\ pending' = a.pending
       /\ notified' = notified \o a.calls

\* the approved mutation: the gateway call made for the record approve returned
approveExec(f, p) ==
    IF p.tool = "file.write" THEN fileToolsWrite(f, p.args.path, p.args.content)
    ELSE fileToolsDelete(f, p.args.path)

\* the call approveExec makes, as the history records it
Execution(id, tool, path, content, by) ==
    [id |-> id, tool |-> tool, path |-> path, content |-> content, by |-> by]

\* ToolDone with the entry put back into the ledger when the approved call fails
ToolDoneRestoring(r) ==
    /\ r \in 1..Len(reqs)
    /\ reqs[r].pc = "tool"
    /\ \E q \in {reqs[r]} :
       \E t \in {IF q.route = "list" THEN fileToolsList(fs, q.path)
                 ELSE IF q.route = "read" THEN fileToolsRead(fs, q.path, q.maxBytes)
                 ELSE approveExec(fs, q.p)} :
          /\ fs' = t.fs
          /\ reqs' = [reqs EXCEPT ![r].out = t.out, ![r].pc = "audit"]
          /\ pending' = IF q.route = "approve" /\ ~t.out.ok THEN pendingSet(pending, q.p)
                        ELSE pending
          /\ executions' =
                IF q.route = "approve"
                THEN Append(executions,
                            Execution(q.p.id, q.p.tool, q.p.args.path, q.p.args.content, "http"))
                ELSE executions
    /\ UNCHANGED <<callVars, restVars, ledgerCalls, nextUuid, listeners, notified, audit, tasks, jobs, runs>>

\* the awaited fileTools call of request r completes
ToolDone(r) ==
    /\ r \in 1..Len(reqs)
    /\ reqs[r].pc = "tool"
    /\ \E q \in {reqs[r]} :
       \E t \in {IF q.route = "list" THEN fileToolsList(fs, q.path)
                 ELSE IF q.route = "read" THEN fileToolsRead(fs, q.path, q.maxBytes)
                 ELSE approveExec(fs, q.p)} :
          /\ fs' = t.fs
          /\ reqs' = [reqs EXCEPT ![r].out = t.out, ![r].pc = "audit"]
          /\ executions' =
                IF q.route = "approve"
                THEN Append(executions,
                            Execution(q.p.id, q.p.tool, q.p.args.path, q.p.args.content, "http"))
                ELSE executions
    /\ UNCHANGED <<callVars, restVars, ledgerCalls, pending, nextUuid, listeners, notified, audit, tasks, jobs, runs>>

\* result: "ok" whatever the tool result
OkOrErrorAlwaysOk(out) == "ok"

OkOrError(out) == IF out.ok THEN "ok" ELSE "error"
Detail(out) == IF out.ok THEN <<>> ELSE <<"error", out.error>>

\* the entry request r hands to auditLogger.log
auditEntryOf(q) ==
    IF q.route = "list"
    THEN AuditEntry("file.list", [path |-> q.path], OkOrError(q.out), Detail(q.out), 0)
    ELSE IF q.route = "read"
    THEN AuditEntry("file.read", [path |-> q.path], OkOrError(q.out), Detail(q.out), 0)
    ELSE IF q.route = "write"
    THEN AuditEntry("file.write", [path |-> q.path], "pending", <<"id", q.id>>, q.id)
    ELSE IF q.route = "delete"
    THEN AuditEntry("file.delete", [path |-> q.path], "pending", <<"id", q.id>>, q.id)
    ELSE AuditEntry(q.p.tool, q.p.args, OkOrError(q.out), Detail(q.out), q.p.id)

\* the response a route sends once its audit entry is written
responseOf(q) ==
    IF q.route \in {"write", "delete"}
    THEN sendJson(q, 200, Body("pending", q.id, NoOut, FALSE, ""))
    ELSE sendJson(q, 200, Body("out", 0, q.out, FALSE, ""))

\* the awaited auditLogger.log of request r completes: the entry is appended and
\* the response sent
AuditDone(r) ==
    /\ r \in 1..Len(reqs)
    /\ reqs[r].pc = "audit"
    /\ audit' = log(audit, auditEntryOf(reqs[r]))
    /\ reqs' = [reqs EXCEPT ![r] = responseOf(reqs[r])]
    /\ UNCHANGED <<fs, callVars, restVars, ledgerCalls, pending, nextUuid, listeners, notified, tasks, jobs, runs,
                   executions>>

AuditFailures == Cardinality({ r \in 1..Len(reqs) : reqs[r].auditFailed })

\* fs.appendFile on audit.jsonl rejects: log rejects, the route's catch answers 500
AuditFails(r) ==
    /\ r \in 1..Len(reqs)
    /\ reqs[r].pc = "audit"
    /\ AuditFailures < MaxAuditFailures
    /\ reqs' = [reqs EXCEPT ![r] = sendJson([reqs[r] EXCEPT !.auditFailed = TRUE], 500,
                                            Body("error", 0, NoOut, FALSE, "appendFile failed"))]
    /\ UNCHANGED <<fs, callVars, restVars, ledgerCalls, pending, nextUuid, listeners, notified, audit, tasks, jobs,
                   runs, executions>>

\* a caller of the ledger registers an observer
OnResolve(kind) ==
    /\ Len(listeners) < MaxListeners
    /\ listeners' = onResolve(listeners, [kind |-> kind])
    /\ UNCHANGED <<fs, callVars, restVars, ledgerCalls, pending, nextUuid, notified, audit, reqs, tasks, jobs, runs,
                   executions>>

(***************************************************************************)
(* The scheduler: a cron job fires, runTask runs the task's action through *)
(* the executor of index.ts                                                *)
(***************************************************************************)
\* executor.runTool(toolName, args)
runTool(f, toolName, args) ==
    IF toolName = "file.list" THEN fileToolsList(f, args.path)
    ELSE IF toolName = "file.read" THEN fileToolsRead(f, args.path, DefaultMaxBytes)
    ELSE IF toolName = "file.write" THEN fileToolsWrite(f, args.path, args.content)
    ELSE fileToolsDelete(f, args.path)

KnownTools == {"file.list", "file.read", "file.write", "file.delete"}

\* setLastRun(id, now)
setLastRun(ts, id) == [i \in 1..Len(ts) |-> IF ts[i].id = id THEN [ts[i] EXCEPT !.lastRun = TRUE]
                                            ELSE ts[i]]

\* runTask(task) of the job scheduled for task id
CronFire(id) ==
    /\ id \in DOMAIN jobs
    /\ Len(runs) < MaxFires
    /\ \E task \in {jobs[id]} :
       \E act \in {task.action} :
          IF act.toolName \in KnownTools
          THEN \E t \in {runTool(fs, act.toolName, act.args)} :
                  /\ fs' = t.fs
                  /\ executions' =
                        IF act.toolName \in {"file.write", "file.delete"}
                        THEN Append(executions,
                                    Execution(0, act.toolName, act.args.path,
                                              act.args.content, "scheduler"))
                        ELSE executions
                  /\ tasks' = setLastRun(tasks, task.id)
                  /\ tasksJson' = save(tasks')
                  /\ runs' = Append(runs, [taskId |-> task.id, ok |-> TRUE])
          ELSE /\ runs' = Append(runs, [taskId |-> task.id, ok |-> FALSE])
               /\ UNCHANGED <<fs, executions, tasks, tasksJson>>
    /\ UNCHANGED <<callVars, crons, mail, conv, ledgerCalls, pending, nextUuid, listeners, notified,
                   audit, reqs, jobs>>

Init ==
    /\ fs = PlainFs
    /\ last = NoCall
    /\ ncalls = 0
    /\ InitApp

Next ==
    \/ \E u \in ListPaths : HttpList(u)
    \/ \E u \in ReadPaths : HttpRead(u, DefaultMaxBytes)
    \/ \E u \in WritePaths, c \in Contents : HttpWrite(u, c)
    \/ \E c \in EdgeContents : HttpWrite(<<"s">>, c)
    \/ HttpWrite(<<>>, OneByteOver)
    \/ \E u \in WritePaths : HttpDelete(u)
    \/ \E id \in 0..nextUuid : HttpApprove(id)
    \/ \E id \in 0..nextUuid : HttpReject(id)
    \/ \E r \in 1..Len(reqs) : ToolDone(r)
    \/ \E r \in 1..Len(reqs) : AuditDone(r)
    \/ \E r \in 1..Len(reqs) : AuditFails(r)
    \/ \E k \in ListenerKinds : OnResolve(k)
    \/ \E id \in DOMAIN jobs : CronFire(id)

Spec == Init /\ [][Next]_vars

(***************************************************************************)
(* Claims about the approval pipeline.  Requests stand in reqs in the      *)
(* order they arrived, which is the order of their ledger calls.           *)
(***************************************************************************)
IsResolution(r) == reqs[r].route \in {"approve", "reject"}

\* the ledger call of request r returned the record (approve) or true (reject)
Resolves(r) == IsResolution(r) /\ reqs[r].resolved

\* the ledger call of q returned null (approve) or false (reject)
ReturnsAbsent(q) ==
    /\ ~q.threw
    /\ IF q.route = "approve" THEN q.ret = Null ELSE q.ret = FALSE

ExecutionsOf(id) == { i \in 1..Len(executions) : executions[i].id = id }

\* C1: for every id, once an approve(id) or reject(id) call has resolved it, every
\* later approve(id) returns null and every later reject(id) returns false, so at
\* most one call resolves it.
C1_ExactlyOnceResolution ==
    \A r1, r2 \in 1..Len(reqs) :
        (r1 < r2 /\ Resolves(r1) /\ IsResolution(r2) /\ reqs[r2].id = reqs[r1].id)
            => ReturnsAbsent(reqs[r2])

C1_Witness ==
    \E r1, r2 \in 1..Len(reqs) :
        /\ r1 < r2
        /\ reqs[r1].route = "approve" /\ reqs[r1].resolved
        /\ reqs[r2].route = "reject" /\ reqs[r2].id = reqs[r1].id
        /\ ReturnsAbsent(reqs[r2])

\* C2: every write or delete executed against the workspace, by the HTTP routes
\* or by the scheduler's executor, is preceded by a successful approve of a pending
\* entry for that same operation.
C2_EveryMutationApproved ==
    \A i \in 1..Len(executions) :
        \E r \in 1..Len(reqs) :
            /\ reqs[r].route = "approve" /\ reqs[r].resolved
            /\ reqs[r].ret.tool = executions[i].tool
            /\ reqs[r].ret.args.path = executions[i].path

AuditEntriesFor(id, results) ==
    { k \in 1..Len(audit) : audit[k].id = id /\ audit[k].result \in results }

\* C6: once a write/delete request has been answered with its pendingId there is
\* one 'pending' audit entry for its id, and once a request that resolved the id,
\* by approval or by rejection, has been answered there is one further entry for
\* that id (audit writes that fail aside).
C6_OneEntryPerTransition ==
    \A r \in 1..Len(reqs) :
        (reqs[r].pc = "done" /\ ~reqs[r].auditFailed) =>
            /\ (reqs[r].route \in {"write", "delete"} /\ reqs[r].status = 200) =>
                  Cardinality(AuditEntriesFor(reqs[r].id, {"pending"})) = 1
            /\ Resolves(r) =>
                  Cardinality(AuditEntriesFor(reqs[r].id, {"ok", "error"})) = 1

\* C7: a request whose audit write failed is still answered with its result:
\* the list/read result, the pendingId, or the result of the approved mutation.
C7_AuditFailureDoesNotFailCaller ==
    \A r \in 1..Len(reqs) :
        reqs[r].auditFailed =>
            /\ reqs[r].status = 200
            /\ reqs[r].body.kind \in {"out", "pending"}

ToolOfRoute(route) == IF route = "write" THEN "file.write" ELSE "file.delete"

\* C8: for each pending id the write or delete is executed at most once, and only
\* with the tool, path and content of the request that submitted it.
C8_ExecutedAtMostOnceAsSubmitted ==
    \A i \in 1..Len(executions) :
        executions[i].id >= 1 =>
            /\ ExecutionsOf(executions[i].id) = {i}
            /\ \E r \in 1..Len(reqs) :
                  /\ reqs[r].route \in {"write", "delete"}
                  /\ reqs[r].id = executions[i].id
                  /\ executions[i].tool = ToolOfRoute(reqs[r].route)
                  /\ executions[i].path = reqs[r].path
                  /\ executions[i].content = reqs[r].content

C8_Witness ==
    \E i \in 1..Len(executions), r1, r2 \in 1..Len(reqs) :
        /\ executions[i].id >= 1 /\ executions[i].by = "http"
        /\ executions[i].tool = "file.write"
        /\ r1 < r2
        /\ reqs[r1].route = "approve" /\ reqs[r1].id = executions[i].id
        /\ reqs[r2].route = "approve" /\ reqs[r2].id = executions[i].id
        /\ reqs[r2].pc = "done"

\* C9: once reject(id) has returned true, the write or delete recorded under id is
\* never executed.
C9_RejectedNeverExecuted ==
    \A r \in 1..Len(reqs) :
        (reqs[r].route = "reject" /\ reqs[r].resolved) => ExecutionsOf(reqs[r].id) = {}

C9_Witness ==
    \E r1, r2 \in 1..Len(reqs) :
        /\ r1 < r2
        /\ reqs[r1].route = "reject" /\ reqs[r1].resolved
        /\ reqs[r2].route = "approve" /\ reqs[r2].id = reqs[r1].id
        /\ reqs[r2].pc = "done" /\ reqs[r2].status = 404

\* C10: approve(id) on a pending id removes the entry, notifies every registered
\* observer with (id, true) and returns the record add stored.
C10_ApproveRemovesNotifiesReturns ==
    \A r \in 1..Len(reqs) :
        (reqs[r].route = "approve" /\ reqs[r].found) =>
            /\ pendingGet(pending, reqs[r].id) = Null
            /\ reqs[r].calls = [i \in 1..reqs[r].nlst |->
                                   [listener |-> i, id |-> reqs[r].id, approved |-> TRUE]]
            /\ ~reqs[r].threw
            /\ reqs[r].ret = reqs[r].stored

\* C11: approve(id) on an id that is not pending (never submitted, or already
\* resolved) returns null, leaves the pending set as it was and notifies nobody;
\* the HTTP approve action answers 404 at once, with nothing executed against the
\* workspace and no audit entry written.
C11_AbsentApproveHasNoEffect ==
    [][ (Len(reqs') = Len(reqs) + 1 /\ reqs'[Len(reqs')].route = "approve"
         /\ pendingGet(pending, reqs'[Len(reqs')].id) = Null) =>
            /\ UNCHANGED <<pending, notified, audit, executions, fs>>
            /\ reqs'[Len(reqs')].ret = Null
            /\ ~reqs'[Len(reqs')].threw
            /\ reqs'[Len(reqs')].calls = <<>>
            /\ reqs'[Len(reqs')].pc = "done"
            /\ reqs'[Len(reqs')].status = 404 ]_vars

C11_Witness ==
    \E r1, r2 \in 1..Len(reqs) :
        /\ r1 < r2
        /\ reqs[r1].route = "approve" /\ reqs[r1].found
        /\ reqs[r2].route = "approve" /\ reqs[r2].id = reqs[r1].id
        /\ ~reqs[r2].found /\ reqs[r2].status = 404
        /\ reqs[r2].nlst > 0
        /\ audit = <<>>

(***************************************************************************)
(* Claims about the ApprovalManager on its own                             *)
(***************************************************************************)
IsResolveCall(k) == ledgerCalls[k].op \in {"approve", "reject"}

\* the invocations call c makes when it notifies every observer registered then
AllNotified(c, approved) ==
    [i \in 1..c.nlst |-> [listener |-> i, id |-> c.id, approved |-> approved]]

\* C12: reject(id) returns true exactly when id was pending, and then the entry
\* is removed and every observer notified with (id, false); otherwise it returns
\* false, the pending set is unchanged and no observer is notified.
C12_RejectSymmetricToApprove ==
    \A k \in 1..Len(ledgerCalls) :
        ledgerCalls[k].op = "reject" =>
            /\ ~ledgerCalls[k].threw
            /\ ledgerCalls[k].ret = ledgerCalls[k].found
            /\ IF ledgerCalls[k].found
               THEN /\ ledgerCalls[k].after = pendingDelete(ledgerCalls[k].before,
                                                            ledgerCalls[k].id)
                    /\ pendingGet(ledgerCalls[k].after, ledgerCalls[k].id) = Null
                    /\ ledgerCalls[k].calls = AllNotified(ledgerCalls[k], FALSE)
               ELSE /\ ledgerCalls[k].after = ledgerCalls[k].before
                    /\ ledgerCalls[k].calls = <<>>

InvocationsOf(c, l) == { j \in 1..Len(c.calls) : c.calls[j].listener = l }

\* C13: every observer registered when a call resolves an id is invoked exactly
\* once by that call, with that id and true for approve, false for reject; a call
\* that resolves nothing invokes no observer.
C13_ObserversOncePerResolution ==
    \A k \in 1..Len(ledgerCalls) :
        IsResolveCall(k) =>
            IF ledgerCalls[k].found
            THEN /\ \A l \in 1..ledgerCalls[k].nlst :
                       Cardinality(InvocationsOf(ledgerCalls[k], l)) = 1
                 /\ \A j \in 1..Len(ledgerCalls[k].calls) :
                       /\ ledgerCalls[k].calls[j].id = ledgerCalls[k].id
                       /\ ledgerCalls[k].calls[j].approved = (ledgerCalls[k].op = "approve")
            ELSE ledgerCalls[k].calls = <<>>

\* the position in the history of the onResolve call that registered observer l
RegisteredAt(l) ==
    CHOOSE k \in 1..Len(ledgerCalls) :
        /\ ledgerCalls[k].op = "onResolve"
        /\ Cardinality({ j \in 1..k : ledgerCalls[j].op = "onResolve" }) = l

\* C14: an observer is invoked, before the resolving call ends, by every approve
\* or reject that resolves an id after the observer was registered, and by none
\* that came before its registration.
C14_ObserversSeeLaterResolutionsOnly ==
    \A l \in 1..Len(listeners) : \A k \in 1..Len(ledgerCalls) :
        (IsResolveCall(k) /\ ledgerCalls[k].found) =>
            IF RegisteredAt(l) < k
            THEN InvocationsOf(ledgerCalls[k], l) # {}
            ELSE InvocationsOf(ledgerCalls[k], l) = {}

AddCalls == { k \in 1..Len(ledgerCalls) : ledgerCalls[k].op = "add" }

\* C15: add returns an id that no earlier add returned, whether or not that id
\* has been resolved since, and after it the ledger holds exactly one record
\* under the id: the one just added.
C15_AddReturnsFreshId ==
    \A k \in AddCalls :
        /\ \A j \in AddCalls : j < k => ledgerCalls[j].ret # ledgerCalls[k].ret
        /\ Cardinality({ i \in 1..Len(ledgerCalls[k].after) :
                           ledgerCalls[k].after[i].id = ledgerCalls[k].ret }) = 1
        /\ pendingGet(ledgerCalls[k].after, ledgerCalls[k].ret) = ledgerCalls[k].stored
        /\ Len(ledgerCalls[k].after) = Len(ledgerCalls[k].before) + 1

C15_Witness ==
    \E j, r, k \in 1..Len(ledgerCalls) :
        /\ j < r /\ r < k
        /\ ledgerCalls[j].op = "add" /\ ledgerCalls[k].op = "add"
        /\ IsResolveCall(r) /\ ledgerCalls[r].found /\ ledgerCalls[r].id = ledgerCalls[j].ret
        /\ ledgerCalls[k].ret # ledgerCalls[j].ret

\* the ids resolved (found by an approve or reject) before call k
ResolvedBefore(k) ==
    { ledgerCalls[j].id : j \in { i \in 1..(k - 1) : IsResolveCall(i) /\ ledgerCalls[i].found } }

\* the records added before call k and not resolved before it, in the order added
AddedAndPending(k) ==
    SelectSeq([i \in 1..(k - 1) |-> ledgerCalls[i]],
              LAMBDA c : c.op = "add" /\ c.ret \notin ResolvedBefore(k))

RecordsOf(cs) == [i \in 1..Len(cs) |-> cs[i].stored]

\* C16: list() returns exactly the records added and not yet resolved, in the
\* order they were added, and what it returned still reads the same after any
\* later ledger operation.
C16_ListIsOrderedSnapshot ==
    \A k \in 1..Len(ledgerCalls) :
        ledgerCalls[k].op = "list" =>
            /\ Read(ledgerCalls[k].snap, ledgerCalls[k].after) = RecordsOf(AddedAndPending(k))
            /\ Read(ledgerCalls[k].snap, pending) = RecordsOf(AddedAndPending(k))

C16_Witness ==
    \E k \in 1..Len(ledgerCalls) :
        /\ ledgerCalls[k].op = "list"
        /\ Len(ledgerCalls[k].snap.items) = 2
        /\ \E r \in (k + 1)..Len(ledgerCalls) : IsResolveCall(r) /\ ledgerCalls[r].found
        /\ Len(pending) = 1

\* C17: no ledger operation raises, whatever its argument, the ledger's state and
\* the observers registered.
C17_LedgerNeverRaises ==
    \A k \in 1..Len(ledgerCalls) : ~ledgerCalls[k].threw

(***************************************************************************)
(* Claims about the audit trail                                            *)
(***************************************************************************)
\* C18: the audit trail at any moment is a prefix of the trail at any later
\* moment: every step keeps every entry written so far, unchanged and in place.
C18_AuditAppendOnly ==
    [][ /\ Len(audit') >= Len(audit)
        /\ \A i \in 1..Len(audit) : audit'[i] = audit[i] ]_vars

C18_Witness ==
    \E j, k \in 1..Len(audit) :
        /\ j < k
        /\ audit[j].result = "pending"
        /\ audit[k].result = "error" /\ audit[k].id = audit[j].id

\* C19: for every mutation request, the 'pending' entry carrying its id comes
\* before the 'ok' or 'error' entry written when the request is approved.
C19_PendingEntryPrecedesOutcome ==
    \A k \in 1..Len(audit) :
        (audit[k].id >= 1 /\ audit[k].result \in {"ok", "error"}) =>
            \E j \in 1..(k - 1) : audit[j].id = audit[k].id /\ audit[j].result = "pending"

(***************************************************************************)
(* Claims about the file tool routes                                       *)
(***************************************************************************)
IsMutationRoute(q) == q.route \in {"write", "delete"}

\* the arguments the route hands to approvalManager.add
ArgsOfRequest(q) ==
    IF q.route = "write" THEN [path |-> q.path, content |-> q.content]
    ELSE [path |-> q.path, content |-> <<>>]

\* this step receives a write or delete request that passes the route's checks
AcceptsMutation ==
    /\ Len(reqs') = Len(reqs) + 1
    /\ IsMutationRoute(reqs'[Len(reqs')])
    /\ reqs'[Len(reqs')].pc = "audit"

\* this step answers the accepted write or delete request r
AnswersMutation(r) ==
    /\ Len(reqs') = Len(reqs)
    /\ IsMutationRoute(reqs[r])
    /\ reqs[r].pc = "audit" /\ reqs'[r].pc = "done"

\* an accepted write or delete request adds exactly one pending entry, holding
\* its tool and arguments, and changes nothing in the workspace, nor does the
\* step that answers it
DefersMutation ==
    /\ AcceptsMutation =>
          \E q \in {reqs'[Len(reqs')]} :
             /\ pendingGet(pending, q.id) = Null
             /\ pending' = Append(pending,
                                  PendingTool(q.id, ToolOfRoute(q.route), ArgsOfRequest(q)))
             /\ fs' = fs /\ executions' = executions
    /\ \A r \in 1..Len(reqs) :
          AnswersMutation(r) => (fs' = fs /\ executions' = executions /\ pending' = pending)

\* the request is answered 200 with the pending id and no tool result
AnsweredWithPendingId(q) ==
    /\ q.status = 200
    /\ q.body.kind = "pending" /\ q.body.pendingId = q.id /\ q.body.out = NoOut

\* the operation of pending id `id` is executed only after an approve call
\* returned its record
ExecutedOnlyAfterApproval ==
    \A i \in 1..Len(executions) :
        executions[i].id >= 1 =>
            \E r \in 1..Len(reqs) :
                /\ reqs[r].route = "approve" /\ reqs[r].resolved
                /\ reqs[r].id = executions[i].id

\* C25: a write or delete request made through the HTTP route returns a pending
\* id instead of a result: it adds exactly one pending entry holding the
\* request's tool and arguments and leaves the workspace unchanged until that id
\* is approved.
C25_MutationDeferredToApproval ==
    /\ [][ /\ DefersMutation
           /\ \A r \in 1..Len(reqs) :
                 AnswersMutation(r) => AnsweredWithPendingId(reqs'[r]) ]_vars
    /\ []ExecutedOnlyAfterApproval

\* C25 for the requests whose audit write succeeds
C25_DeferredUnlessAuditFails ==
    /\ [][ /\ DefersMutation
           /\ \A r \in 1..Len(reqs) :
                 (AnswersMutation(r) /\ ~reqs'[r].auditFailed) =>
                     AnsweredWithPendingId(reqs'[r]) ]_vars
    /\ []ExecutedOnlyAfterApproval

IsQueryRoute(q) == q.route \in {"list", "read"}

ToolOfQuery(route) == IF route = "list" THEN "file.list" ELSE "file.read"

\* this step is a step of the list or read request r: it is received, its tool
\* call completes, or its audit write completes or fails
QueryStep(r) ==
    /\ r \in 1..Len(reqs')
    /\ IsQueryRoute(reqs'[r])
    /\ \/ r = Len(reqs) + 1
       \/ r <= Len(reqs) /\ reqs'[r].pc # reqs[r].pc

\* the step in which the tool call of the list or read request r completes: no
\* approve call for it exists or is needed
QueryExecutes(r) ==
    /\ r \in 1..Len(reqs)
    /\ IsQueryRoute(reqs[r])
    /\ reqs[r].pc = "tool" /\ reqs'[r].pc = "audit"

\* the step in which the audit write of the list or read request r completes
QueryAudited(r) ==
    /\ r \in 1..Len(reqs)
    /\ IsQueryRoute(reqs[r])
    /\ reqs[r].pc = "audit" /\ reqs'[r].pc = "done" /\ ~reqs'[r].auditFailed

\* C26: list and read requests execute immediately without approval: no step of
\* theirs adds, removes or resolves a pending entry, and each appends exactly
\* one audit entry, whose result is 'ok' exactly when the tool result is ok
\* (a request without path, which runs no tool, and an audit write that fails
\* append none).
C26_QueriesRunUnapprovedAndAuditedOnce ==
    [][ \A r \in 1..Len(reqs') :
          QueryStep(r) =>
             /\ pending' = pending /\ notified' = notified /\ nextUuid' = nextUuid
             /\ r = Len(reqs) + 1 =>
                   /\ audit' = audit
                   /\ reqs'[r].pc = "tool" \/ (reqs'[r].pc = "done" /\ reqs'[r].status = 400)
             /\ QueryExecutes(r) => audit' = audit
             /\ QueryAudited(r) =>
                   /\ Len(audit') = Len(audit) + 1
                   /\ SubSeq(audit', 1, Len(audit)) = audit
                   /\ audit'[Len(audit')].tool = ToolOfQuery(reqs[r].route)
                   /\ audit'[Len(audit')].args = [path |-> reqs[r].path]
                   /\ (audit'[Len(audit')].result = "ok") = reqs[r].out.ok
                   /\ audit'[Len(audit')].result \in {"ok", "error"}
                   /\ reqs'[r].status = 200 /\ reqs'[r].body.out = reqs[r].out
             /\ (r <= Len(reqs) /\ ~QueryExecutes(r) /\ ~QueryAudited(r)) =>
                   (audit' = audit /\ reqs[r].pc = "audit" /\ reqs'[r].auditFailed) ]_vars

\* a read has been executed and audited 'error' and a list 'ok', with nothing
\* ever pending and no approve request made
C26_Witness ==
    /\ pending = <<>> /\ nextUuid = 0
    /\ \A r \in 1..Len(reqs) : IsQueryRoute(reqs[r])
    /\ \E r1, r2 \in 1..Len(reqs) :
          /\ reqs[r1].route = "read" /\ reqs[r1].pc = "done" /\ reqs[r1].status = 200
          /\ ~reqs[r1].body.out.ok
          /\ reqs[r2].route = "list" /\ reqs[r2].pc = "done" /\ reqs[r2].body.out.ok
    /\ \E j, k \in 1..Len(audit) :
          /\ audit[j].tool = "file.read" /\ audit[j].result = "error"
          /\ audit[k].tool = "file.list" /\ audit[k].result = "ok"
    /\ Len(audit) = 2

\* this step receives a write request that names a path
ReceivesWrite ==
    /\ Len(reqs') = Len(reqs) + 1
    /\ reqs'[Len(reqs')].route = "write"
    /\ reqs'[Len(reqs')].path # <<>>

\* the request is answered at once and the step changes nothing else
RefusedWith(status) ==
    /\ reqs'[Len(reqs')].pc = "done" /\ reqs'[Len(reqs')].status = status
    /\ reqs'[Len(reqs')].body.kind = "error"
    /\ pending' = pending /\ nextUuid' = nextUuid
    /\ audit' = audit
    /\ fs' = fs /\ executions' = executions

SandboxRejects(u) == lexicalCheck(u) # ""

\* this step receives a write or delete request that names a path the sandbox
\* rejects (and, for a write, carries content the route accepts)
SubmitsRejectedPath ==
    /\ Len(reqs') = Len(reqs) + 1
    /\ \E q \in {reqs'[Len(reqs')]} :
          /\ IsMutationRoute(q)
          /\ q.path # <<>> /\ SandboxRejects(q.path)
          /\ q.content # NotAString
          /\ byteLength(utf8Encode(q.content)) <= MaxWriteBytes

\* request r approves a pending entry whose path the sandbox rejects
ApprovesRejectedPath(r) ==
    /\ reqs[r].route = "approve" /\ reqs[r].resolved
    /\ reqs[r].p # Null
    /\ SandboxRejects(reqs[r].p.args.path)

\* submitting stores the request as pending without looking at the path
StoredUnvalidated ==
    SubmitsRejectedPath =>
        \E q \in {reqs'[Len(reqs')]} :
           /\ q.pc = "audit"
           /\ pending' = Append(pending,
                                PendingTool(q.id, ToolOfRoute(q.route), ArgsOfRequest(q)))
           /\ fs' = fs /\ audit' = audit

\* the awaited gateway call of the approve request r returns {ok: false, error}
\* with the sandbox's message and changes nothing
RejectionSurfaces(r) ==
    (reqs[r].pc = "tool" /\ reqs'[r].pc = "audit") =>
        /\ ~reqs'[r].out.ok
        /\ reqs'[r].out.error = lexicalCheck(reqs[r].p.args.path)
        /\ fs' = fs /\ audit' = audit

\* the step that ends the audit write of request r appended `result` for id
Audited(r, id, result) ==
    /\ Len(audit') = Len(audit) + 1
    /\ SubSeq(audit', 1, Len(audit)) = audit
    /\ audit'[Len(audit')].id = id
    /\ audit'[Len(audit')].result = result

\* no response to a write or delete request carries a tool result or a sandbox
\* message
NothingSurfacesOnSubmit ==
    \A r \in 1..Len(reqs) :
        (IsMutationRoute(reqs[r]) /\ reqs[r].path # <<>>) =>
            /\ reqs[r].body.out = NoOut
            /\ reqs[r].body.error \notin LexicalReasons

\* C34: submitting a write or delete request performs no path validation: a
\* request whose path the sandbox would reject is still stored as pending and,
\* when it is answered with its pending id, audited 'pending'; no answer to a
\* submission carries the rejection, which surfaces only when the entry is
\* approved: the approved call returns {ok: false, error} and changes nothing,
\* and the approver is answered with that result once exactly one 'error' entry
\* has been appended.  (An audit write that the filesystem refuses appends
\* nothing and answers 500 instead.)
C34_RejectionSurfacesOnApproval ==
    /\ [][ /\ StoredUnvalidated
           /\ \A r \in 1..Len(reqs) :
                 /\ (AnswersMutation(r) /\ SandboxRejects(reqs[r].path)) =>
                       \/ Audited(r, reqs[r].id, "pending") /\ AnsweredWithPendingId(reqs'[r])
                       \/ audit' = audit /\ reqs'[r].status = 500
                 /\ ApprovesRejectedPath(r) =>
                       /\ RejectionSurfaces(r)
                       /\ (reqs[r].pc = "audit" /\ reqs'[r].pc = "done") =>
                             \/ /\ Audited(r, reqs[r].id, "error")
                                /\ reqs'[r].status = 200
                                /\ reqs'[r].body.kind = "out" /\ ~reqs'[r].body.out.ok
                                /\ reqs'[r].body.out.error = reqs[r].out.error
                             \/ audit' = audit /\ reqs'[r].status = 500 ]_vars
    /\ []NothingSurfacesOnSubmit

\* a write of '../o' was stored, audited 'pending', approved, refused by the
\* sandbox and audited 'error'
C34_Witness ==
    /\ Len(reqs) = 2 /\ Len(audit) = 2
    /\ reqs[1].route = "write" /\ reqs[1].path = <<".", ".", "/", "o">>
    /\ reqs[2].route = "approve" /\ reqs[2].pc = "done" /\ reqs[2].status = 200
    /\ reqs[2].body.out.error = "Path escapes workspace"
    /\ audit[1].result = "pending" /\ audit[2].result = "error"
    /\ fs = PlainFs

(***************************************************************************)
(* Claims about an approved mutation that fails                            *)
(***************************************************************************)
\* the approve call of request r returned the record of its id
Approved(r) == reqs[r].route = "approve" /\ reqs[r].resolved /\ reqs[r].p # Null

\* the approved call of request r has run and returned {ok: false}
ApprovedCallFailed(r) ==
    Approved(r) /\ reqs[r].pc \in {"audit", "done"} /\ ~reqs[r].out.ok

\* C35: approval consumes the pending entry before the mutation runs: from the
\* approve call on, before the approved write or delete is executed and after
\* it has failed, the id is not in the ledger; every other approve of that id
\* finds nothing and is answered 404; and the failed attempt is recorded by no
\* audit entry before the approver's audit write ends, by exactly one 'error'
\* entry (and no 'ok' entry) once the approver has its answer, and never by more.
C35_FailedApprovalConsumesEntry ==
    \A r \in 1..Len(reqs) :
        Approved(r) =>
            /\ pendingGet(pending, reqs[r].id) = Null
            /\ reqs[r].pc = "tool" =>
                  /\ ExecutionsOf(reqs[r].id) = {}
                  /\ AuditEntriesFor(reqs[r].id, {"ok", "error"}) = {}
            /\ \A r2 \in 1..Len(reqs) :
                  (r2 # r /\ reqs[r2].route = "approve" /\ reqs[r2].id = reqs[r].id) =>
                      (ReturnsAbsent(reqs[r2]) /\ reqs[r2].status = 404)
            /\ ApprovedCallFailed(r) =>
                  /\ Cardinality(ExecutionsOf(reqs[r].id)) = 1
                  /\ AuditEntriesFor(reqs[r].id, {"ok"}) = {}
                  /\ Cardinality(AuditEntriesFor(reqs[r].id, {"error"})) =
                        (IF reqs[r].pc = "done" /\ reqs[r].status = 200 THEN 1 ELSE 0)

\* a write of '../o' was approved and failed, its 'error' entry is written, and
\* a second approve of the same id was answered 404
C35_Witness ==
    /\ Len(reqs) = 3
    /\ reqs[1].route = "write"
    /\ ApprovedCallFailed(2) /\ reqs[2].pc = "done" /\ reqs[2].status = 200
    /\ reqs[3].route = "approve" /\ reqs[3].id = reqs[2].id /\ reqs[3].status = 404
    /\ Cardinality(AuditEntriesFor(reqs[2].id, {"error"})) = 1
    /\ pending = <<>>

(***************************************************************************)
(* Claims about observers that call back into the ledger                   *)
(***************************************************************************)
\* the observers call k invoked that call back into the ledger
CallingBack(c) ==
    { j \in 1..Len(c.calls) : listeners[c.calls[j].listener].kind \in {"list", "approve", "reject"} }

\* what observer e.listener got from its own call while it was invoked for e.id:
\* list() without the id, null from approve(id), false from reject(id), and no
\* observer invoked by that call
SeesResolved(e) ==
    /\ ~e.threw
    /\ e.calls = <<>>
    /\ IF e.op = "list" THEN \A x \in 1..Len(e.ret) : e.ret[x].id # e.id
       ELSE IF e.op = "approve" THEN e.ret = Null
       ELSE e.ret = FALSE

\* C36: observers run after the entry has been removed from the ledger: inside
\* an observer invoked for id, list() does not contain id, and a re-entrant
\* approve(id) or reject(id) returns null / false, notifies nobody and leaves
\* the ledger as it is, so no observer is invoked twice for the same resolution.
C36_ObserversRunAfterRemoval ==
    \A k \in 1..Len(ledgerCalls) :
        IsResolveCall(k) =>
            \E c \in {ledgerCalls[k]} :
               IF c.found
               THEN /\ \A i \in 1..Len(c.inner) :
                          /\ c.inner[i].id = c.id
                          /\ c.inner[i].op = listeners[c.inner[i].listener].kind
                          /\ SeesResolved(c.inner[i])
                    /\ Len(c.inner) = Cardinality(CallingBack(c))
                    /\ \A l \in 1..c.nlst : Cardinality(InvocationsOf(c, l)) <= 1
                    /\ c.after = pendingDelete(c.before, c.id)
                    /\ c.threw => \E l \in 1..c.nlst : listeners[l].kind = "throw"
               ELSE c.calls = <<>> /\ c.inner = <<>> /\ c.after = c.before

\* an approve resolved an id while an observer calling approve(id) and one
\* calling list() were registered, and both were invoked
C36_Witness ==
    \E k \in 1..Len(ledgerCalls) :
        /\ ledgerCalls[k].op = "approve" /\ ledgerCalls[k].found
        /\ Len(ledgerCalls[k].before) = 2
        /\ Len(ledgerCalls[k].inner) = 2
        /\ ledgerCalls[k].inner[1].op = "approve"
        /\ ledgerCalls[k].inner[2].op = "list" /\ Len(ledgerCalls[k].inner[2].ret) = 1

\* a reject resolved an id while observers calling reject(id) and approve(id)
\* were registered
C36_RejectWitness ==
    \E k \in 1..Len(ledgerCalls) :
        /\ ledgerCalls[k].op = "reject" /\ ledgerCalls[k].found
        /\ Len(ledgerCalls[k].inner) = 2
        /\ ledgerCalls[k].inner[1].op = "reject"
        /\ ledgerCalls[k].inner[2].op = "approve"

(***************************************************************************)
(* The scheduler's jobs: SchedulerRunner.start / stop / reload and the     *)
(* POST /api/tasks route, each run to its end before the next begins.      *)
(* jobs is the runner's Map; crons counts, per task id, the Cron objects   *)
(* created and not stopped.                                                *)
(***************************************************************************)
MaxTasks == 3

NoJobs == [id \in {} |-> Null]

\* the runner's state: the Map and the Cron objects alive
Runner(j, c) == [jobs |-> j, crons |-> c]

\* scheduleTask(task): the job the Map holds for the id is stopped and deleted,
\* a new Cron is created and stored under the id
scheduleTask(st, task) ==
    The({ Runner([id \in (DOMAIN st.jobs) \cup {task.id} |->
                     IF id = task.id THEN task ELSE st.jobs[id]],
                 [c EXCEPT ![task.id] = @ + 1]) :
          c \in {IF task.id \in DOMAIN st.jobs
                 THEN [st.crons EXCEPT ![task.id] = @ - 1]
                 ELSE st.crons} })

\* stop(): every job of the Map is stopped, the Map cleared
stop(st) ==
    Runner(NoJobs, [id \in TaskIds |-> IF id \in DOMAIN st.jobs THEN st.crons[id] - 1
                                       ELSE st.crons[id]])

\* the for loop of start() over the enabled tasks
RECURSIVE scheduleAll(_, _)
scheduleAll(st, ts) ==
    IF ts = <<>> THEN st ELSE scheduleAll(scheduleTask(st, Head(ts)), Tail(ts))

\* start(): engine.load(), then scheduleTask for every enabled task
start(st, file) == scheduleAll(st, getEnabledTasks(load(file)))

\* reload(): stop(), then start()
reload(st, file) == start(stop(st), file)

SchedLeaves ==
    UNCHANGED <<fs, callVars, ledgerCalls, pending, nextUuid, listeners, notified, audit, reqs,
                runs, executions, mail, conv>>

SchedulerStart ==
    /\ SchedLeaves
    /\ tasks' = load(tasksJson)
    /\ \E st \in {start(Runner(jobs, crons), tasksJson)} :
          jobs' = st.jobs /\ crons' = st.crons
    /\ UNCHANGED tasksJson

SchedulerReload ==
    /\ SchedLeaves
    /\ tasks' = load(tasksJson)
    /\ \E st \in {reload(Runner(jobs, crons), tasksJson)} :
          jobs' = st.jobs /\ crons' = st.crons
    /\ UNCHANGED tasksJson

\* SchedulerEngine.addTask(task): pushed, then saved
addTask(ts, task) == Append(ts, task)

\* POST /api/tasks with a cron string and an action object: the route's whole
\* effect on the scheduler
HttpAddTask(id, enabled) ==
    /\ SchedLeaves
    /\ Len(tasks) < MaxTasks
    /\ tasks' = addTask(tasks, [id |-> id, enabled |-> enabled, lastRun |-> FALSE,
                                action |-> [type |-> "runTool", toolName |-> "file.list",
                                            args |-> [path |-> <<".">>, content |-> <<>>]]])
    /\ tasksJson' = save(tasks')
    /\ UNCHANGED <<jobs, crons>>

\* the process has constructed engine and runner; tasks.json is absent or holds
\* two tasks
InitSched ==
    /\ fs = PlainFs
    /\ last = NoCall
    /\ ncalls = 0
    /\ pending = <<>> /\ nextUuid = 0 /\ listeners = <<>> /\ notified = <<>>
    /\ audit = <<>> /\ reqs = <<>> /\ runs = <<>> /\ executions = <<>>
    /\ ledgerCalls = <<>>
    /\ mail = NoMail /\ conv = NoConv
    /\ tasks = <<>>
    /\ jobs = NoJobs
    /\ crons = [id \in TaskIds |-> 0]
    /\ tasksJson \in {NoTasksJson, save(TasksFile)}

NextSched ==
    \/ SchedulerStart
    \/ SchedulerReload
    \/ \E id \in TaskIds, enabled \in BOOLEAN : HttpAddTask(id, enabled)

SpecSched == InitSched /\ [][NextSched]_vars

\* the task ids with an active cron job, and the enabled task ids the engine holds
ActiveIds == { id \in TaskIds : crons[id] > 0 }
EnabledIds == { tasks[i].id : i \in { j \in 1..Len(tasks) : tasks[j].enabled } }

\* C39: after any sequence of start, reload and task additions through POST
\* /api/tasks, the set of task ids that have an active cron job equals the set
\* of enabled task ids stored in the engine, with at most one active job per id.
C39_ActiveJobsAreEnabledTasks ==
    /\ ActiveIds = EnabledIds
    /\ \A id \in TaskIds : crons[id] <= 1

\* what holds of C39: never more than one active job per id, all of them in the
\* runner's Map, and the two sets are equal right after a start or a reload
\* (the steps that leave tasks.json as it is)
C39_OneJobPerIdAndEqualAfterReload ==
    /\ [](\A id \in TaskIds : crons[id] <= 1)
    /\ [](ActiveIds = DOMAIN jobs)
    /\ [][ tasksJson' = tasksJson => ActiveIds' = EnabledIds' ]_<<tasks, jobs, crons, tasksJson>>

\* an enabled task added through the route has no job, then a reload gives it one
C39_Reached ==
    /\ Len(tasks) = 3
    /\ tasks[3].id = "t3" /\ tasks[3].enabled
    /\ ActiveIds = {"t1", "t3"}

(***************************************************************************)
(* ConversationStore.nextBotMsgNo for one conversation, called by the      *)
(* /api/chat route and by EmailChannel.handleInbound.  A call is three     *)
(* steps: it begins (loadMeta's readFile is issued), the read completes    *)
(* (n is taken, saveMeta's writeFile of n + 1 is issued), the write        *)
(* completes (n is returned).  Other calls' steps may come in between.     *)
(***************************************************************************)
MaxMsgCalls == 3

\* who calls nextBotMsgNo
MsgCallers == { "chat", "mail" }

\* the calls still between their first and last step
InFlight == { c \in 1..Len(conv.calls) : conv.calls[c].pc # "done" }

ConvLeaves ==
    UNCHANGED <<fs, callVars, ledgerCalls, pending, nextUuid, listeners, notified, audit, reqs,
                tasks, jobs, runs, executions, tasksJson, crons, mail>>

\* nextBotMsgNo(convId) is called: loadMeta begins.  alone: no other call was
\* in flight while this one was
NextBotMsgNo(by) ==
    /\ ConvLeaves
    /\ Len(conv.calls) < MaxMsgCalls
    /\ conv' = [conv EXCEPT
                  !.calls = Append([c \in 1..Len(conv.calls) |->
                                       IF c \in InFlight THEN [conv.calls[c] EXCEPT !.alone = FALSE]
                                       ELSE conv.calls[c]],
                                   [by |-> by, pc |-> "load", n |-> 0, alone |-> InFlight = {}])]

\* loadMeta of call c completes: n = meta.nextMsgNo; meta.nextMsgNo += 1;
\* saveMeta(meta) begins
LoadMeta(c) ==
    /\ ConvLeaves
    /\ c \in 1..Len(conv.calls)
    /\ conv.calls[c].pc = "load"
    /\ conv' = [conv EXCEPT !.calls[c].n = conv.nextMsgNo, !.calls[c].pc = "save"]

\* saveMeta of call c completes: meta.json holds n + 1, the call returns n
SaveMeta(c) ==
    /\ ConvLeaves
    /\ c \in 1..Len(conv.calls)
    /\ conv.calls[c].pc = "save"
    /\ conv' = [conv EXCEPT !.nextMsgNo = conv.calls[c].n + 1,
                            !.calls[c].pc = "done",
                            !.returned = Append(@, [call |-> c, n |-> conv.calls[c].n])]

InitConv ==
    /\ fs = PlainFs
    /\ last = NoCall
    /\ ncalls = 0
    /\ InitApp

NextConv ==
    \/ \E by \in MsgCallers : NextBotMsgNo(by)
    \/ \E c \in 1..Len(conv.calls) : LoadMeta(c)
    \/ \E c \in 1..Len(conv.calls) : SaveMeta(c)

SpecConv == InitConv /\ [][NextConv]_vars

\* C38: the message numbers returned by nextBotMsgNo for one conversation are
\* pairwise distinct and strictly increasing (in the order the calls return),
\* under any interleaving of concurrent calls for that conversation.
C38_MsgNosDistinctAndIncreasing ==
    \A i, j \in 1..Len(conv.returned) :
        i < j => conv.returned[i].n < conv.returned[j].n

\* what holds of C38: calls that do not overlap return 1, 2, 3, ...
C38_WhenCallsDoNotOverlap ==
    (\A c \in 1..Len(conv.calls) : conv.calls[c].alone) =>
        \A i \in 1..Len(conv.returned) : conv.returned[i].n = i

\* three calls, one after the other, returned 1, 2 and 3
C38_Reached ==
    /\ Len(conv.returned) = 3
    /\ \A c \in 1..Len(conv.calls) : conv.calls[c].alone
    /\ conv.nextMsgNo = 4

(***************************************************************************)
(* EmailChannel: start() runs one poll and then sets the interval timer,   *)
(* whose ticks each begin a poll whether or not the one before has ended.  *)
(* A poll is search, then for every unseen uid: fetch and parse, the agent *)
(* call, the reply, the \Seen flag; each awaited call is a step, and other *)
(* polls' steps may come in between.  The replies are sent to the bot's    *)
(* own address and arrive in INBOX.  The uid of a message is its place in  *)
(* inbox.                                                                  *)
(***************************************************************************)
MaxPolls == 3
MaxInbox == 3

\* String.prototype.trim
RECURSIVE trimStart(_)
trimStart(s) == IF s # <<>> /\ Head(s) \in WhiteSpace THEN trimStart(Tail(s)) ELSE s

RECURSIVE trimEnd(_)
trimEnd(s) ==
    IF s # <<>> /\ s[Len(s)] \in WhiteSpace THEN trimEnd(SubSeq(s, 1, Len(s) - 1)) ELSE s

trim(s) == trimEnd(trimStart(s))

\* String.prototype.toLowerCase, for the letters the header values use
toLowerCase(s) ==
    [i \in 1..Len(s) |->
        CASE s[i] = "Y" -> "y" [] s[i] = "E" -> "e" [] s[i] = "S" -> "s"
          [] s[i] = "T" -> "t" [] s[i] = "R" -> "r" [] s[i] = "U" -> "u"
          [] OTHER -> s[i]]

\* toInbound(parsed).hasBotHeader, v the value of x-moltbot-out (<<>>: no such
\* header)
hasBotHeader(v) ==
    IF v = <<>> THEN FALSE
    ELSE toLowerCase(trim(v)) \in { <<"1">>, <<"t", "r", "u", "e">>, <<"y", "e", "s">> }

\* a message in INBOX: its Message-ID (0: none), whether it has a From address,
\* its X-Moltbot-Out value, its \Seen flag, and whether the bot sent it
Message(mid, from, out, own) ==
    [mid |-> mid, from |-> from, out |-> out, seen |-> FALSE, own |-> own]

\* dedupeKey
dedupeKey(msg, uid) == IF msg.mid # 0 THEN <<"mid", msg.mid>> ELSE <<"uid", uid>>

\* imap.search({seen: false})
search(inbox) ==
    SelectSeq([i \in 1..Len(inbox) |-> i], LAMBDA u : ~inbox[u].seen)

\* sendMail without the X-Moltbot-Out header
sendMailNoHeader(uid, msg) == [out |-> <<>>, inReplyTo |-> msg.mid, uid |-> uid]

\* the message sendMail hands to the SMTP transport in reply to message uid: its
\* X-Moltbot-Out header and In-Reply-To
sendMail(uid, msg) == [out |-> <<"1">>, inReplyTo |-> msg.mid, uid |-> uid]

MailLeaves ==
    UNCHANGED <<fs, callVars, ledgerCalls, pending, nextUuid, listeners, notified, audit, reqs,
                tasks, jobs, runs, executions, tasksJson, crons, conv>>

Polling == { p \in 1..Len(mail.polls) : mail.polls[p].pc # "done" }

\* pollOnceSafe() is called: by start(), and once that poll has ended by every
\* tick of the timer
PollOnceSafe ==
    /\ MailLeaves
    /\ Len(mail.polls) < MaxPolls
    /\ Len(mail.polls) >= 1 => mail.polls[1].pc = "done"
    /\ mail' = [mail EXCEPT !.polls = Append(@, [pc |-> "search", uids |-> <<>>, k |-> 0]),
                            !.overlapped = @ \/ Polling # {}]

\* imap.search of poll p completes
Search(p) ==
    /\ MailLeaves
    /\ p \in 1..Len(mail.polls)
    /\ mail.polls[p].pc = "search"
    /\ \E uids \in {search(mail.inbox)} :
          mail' = [mail EXCEPT !.polls[p] =
                      IF uids = <<>> THEN [pc |-> "done", uids |-> uids, k |-> 0]
                      ELSE [pc |-> "fetch", uids |-> uids, k |-> 1]]

\* fetchOne and simpleParser of poll p complete for its current uid: the tests
\* of pollOnce up to the next awaited call
Fetch(p) ==
    /\ MailLeaves
    /\ p \in 1..Len(mail.polls)
    /\ mail.polls[p].pc = "fetch"
    /\ \E uid \in {mail.polls[p].uids[mail.polls[p].k]} :
       \E key \in {dedupeKey(mail.inbox[uid], uid)} :
          mail' = IF key \in mail.seen
                  THEN [mail EXCEPT !.polls[p].pc = "flag"]
                  ELSE IF hasBotHeader(mail.inbox[uid].out) \/ ~mail.inbox[uid].from
                  THEN [mail EXCEPT !.polls[p].pc = "flag", !.seen = @ \cup {key}]
                  ELSE [mail EXCEPT !.polls[p].pc = "agent"]

\* handleInbound of poll p reaches agent.handle
Agent(p) ==
    /\ MailLeaves
    /\ p \in 1..Len(mail.polls)
    /\ mail.polls[p].pc = "agent"
    /\ mail' = [mail EXCEPT !.polls[p].pc = "send",
                            !.handled = Append(@, [uid |-> mail.polls[p].uids[mail.polls[p].k],
                                                   poll |-> p])]

\* sendMail of poll p completes, handleInbound returns and processed.add
\* records the key
Send(p) ==
    /\ MailLeaves
    /\ p \in 1..Len(mail.polls)
    /\ mail.polls[p].pc = "send"
    /\ \E uid \in {mail.polls[p].uids[mail.polls[p].k]} :
          mail' = [mail EXCEPT !.polls[p].pc = "flag",
                               !.sent = Append(@, sendMail(uid, mail.inbox[uid])),
                               !.seen = @ \cup {dedupeKey(mail.inbox[uid], uid)}]

\* messageFlagsAdd(uid, ["\\Seen"]) of poll p completes; the loop goes on
Flag(p) ==
    /\ MailLeaves
    /\ p \in 1..Len(mail.polls)
    /\ mail.polls[p].pc = "flag"
    /\ \E q \in {mail.polls[p]} :
          mail' = [mail EXCEPT !.inbox[q.uids[q.k]].seen = TRUE,
                               !.polls[p] = IF q.k = Len(q.uids) THEN [q EXCEPT !.pc = "done"]
                                            ELSE [q EXCEPT !.pc = "fetch", !.k = q.k + 1]]

OwnMail == { u \in 1..Len(mail.inbox) : mail.inbox[u].own }

\* the next reply the bot sent arrives in INBOX, with the headers it was sent with
Deliver ==
    /\ MailLeaves
    /\ Len(mail.inbox) < MaxInbox
    /\ Cardinality(OwnMail) < Len(mail.sent)
    /\ \E s \in {mail.sent[Cardinality(OwnMail) + 1]} :
          mail' = [mail EXCEPT !.inbox = Append(@, Message(100 + Len(mail.inbox), TRUE, s.out, TRUE))]

\* the mail that arrives from elsewhere while the channel runs
Arriving ==
    { Message(1, TRUE, <<>>, FALSE), Message(0, TRUE, <<>>, FALSE),
      Message(2, TRUE, <<"t", "r", "u", "e">>, FALSE) }

\* a mail from elsewhere arrives in INBOX
Arrive(msg) ==
    /\ MailLeaves
    /\ Len(mail.inbox) < MaxInbox
    /\ mail' = [mail EXCEPT !.inbox = Append(@, msg)]

\* what INBOX holds when the channel starts
InboxChoices ==
    { << Message(1, TRUE, <<>>, FALSE) >>,
      << Message(0, TRUE, <<>>, FALSE), Message(2, TRUE, <<" ", "Y", "e", "s", " ">>, FALSE) >>,
      << Message(1, TRUE, <<>>, FALSE), Message(1, TRUE, <<>>, FALSE) >>,
      << Message(1, FALSE, <<>>, FALSE), Message(2, TRUE, <<"0">>, FALSE) >>,
      << Message(3, TRUE, <<"1">>, FALSE) >> }

InitMail ==
    /\ fs = PlainFs
    /\ last = NoCall
    /\ ncalls = 0
    /\ pending = <<>> /\ nextUuid = 0 /\ listeners = <<>> /\ notified = <<>>
    /\ audit = <<>> /\ reqs = <<>> /\ runs = <<>> /\ executions = <<>>
    /\ ledgerCalls = <<>>
    /\ tasks = TasksFile /\ jobs = startJobs(TasksFile) /\ tasksJson = save(TasksFile)
    /\ crons = [id \in TaskIds |-> IF id \in DOMAIN startJobs(TasksFile) THEN 1 ELSE 0]
    /\ conv = NoConv
    /\ \E inbox \in InboxChoices : mail = [NoMail EXCEPT !.inbox = inbox]

NextMail ==
    \/ PollOnceSafe
    \/ \E p \in 1..Len(mail.polls) : Search(p)
    \/ \E p \in 1..Len(mail.polls) : Fetch(p)
    \/ \E p \in 1..Len(mail.polls) : Agent(p)
    \/ \E p \in 1..Len(mail.polls) : Send(p)
    \/ \E p \in 1..Len(mail.polls) : Flag(p)
    \/ Deliver
    \/ \E msg \in Arriving : Arrive(msg)

SpecMail == InitMail /\ [][NextMail]_vars

\* how often message uid was handed to an agent, and how many replies it got
AgentCalls(uid) == { h \in 1..Len(mail.handled) : mail.handled[h].uid = uid }
Replies(uid) == { s \in 1..Len(mail.sent) : mail.sent[s].uid = uid }

\* C37: each unseen inbound email is handled (agent invoked and a reply sent) at
\* most once, even when one poll takes longer than the poll interval so that
\* timer-driven polls overlap.
C37_EachMailHandledAtMostOnce ==
    \A uid \in 1..Len(mail.inbox) :
        Cardinality(AgentCalls(uid)) <= 1 /\ Cardinality(Replies(uid)) <= 1

\* what holds of C37: as long as no poll began while another was running, each
\* mail is handled at most once
C37_WhenPollsDoNotOverlap ==
    ~mail.overlapped => C37_EachMailHandledAtMostOnce

\* three polls ran one after the other, a mail arrived after the first and was
\* handled once
C37_Reached ==
    /\ Len(mail.polls) = 3 /\ Polling = {} /\ ~mail.overlapped
    /\ Len(mail.inbox) >= 2
    /\ Cardinality(AgentCalls(2)) = 1 /\ Cardinality(Replies(2)) = 1
    /\ AgentCalls(2) \subseteq { h \in 1..Len(mail.handled) : mail.handled[h].poll = 2 }
    /\ mail.inbox[2].seen

\* the uids poll p has been through: all of its list once it has ended, those
\* before its current one otherwise
Passed(p) ==
    { mail.polls[p].uids[i] :
        i \in { j \in 1..Len(mail.polls[p].uids) :
                   mail.polls[p].pc = "done" \/ j < mail.polls[p].k } }

C40_ForeignWitness ==
    \E p \in 1..Len(mail.polls) :
        /\ Len(mail.inbox) >= 2 /\ mail.inbox[2].mid = 2 /\ ~mail.inbox[2].own
        /\ hasBotHeader(mail.inbox[2].out)
        /\ 2 \in Passed(p) /\ mail.inbox[2].seen

====
